---- MODULE Spec2Model ----
(***************************************************************************)
(* Job orchestration subsystem of the tweet video renderer:                *)
(*   JobManager            (utils/job-manager.js)                          *)
(*   VideoGenerationWorker (workers/video-worker.js, src/unnamed/part_003) *)
(*   LocalStorageProvider  (utils/storage/local.js)                        *)
(*   CleanupScheduler      (utils/cleanup-scheduler.js)                    *)
(* Execution model: one Node.js event loop.  Every action below is one     *)
(* run-to-completion slice of JavaScript between two suspension points     *)
(* (await), so the actions interleave but never overlap.                   *)
(***************************************************************************)
EXTENDS Integers, Sequences, FiniteSets, TLC

\* ------------------------------------------------------------------ bounds
MaxJobs == 3            \* number of ids createJob may allocate in one run
MaxStoreJobs == 2       \* the same, in the runs that call the JobManager directly
JobRetentionHours == 1  \* CleanupScheduler's jobRetentionHours, in clock units
MaxTime == JobRetentionHours + 1   \* last value of the clock
TtlHours == 1           \* LocalStorageProvider's ttlHours, in clock units
MaxCalls == 1           \* storage calls of client code that may be in progress at once
MaxPasses == 2          \* cleanup() passes of the scheduler that are followed

\* ------------------------------------------------------- program constants
MaxConcurrentJobs == 2  \* dependencies.maxConcurrentJobs || 2
MaxWaitTime == 60000    \* stop(): maxWaitTime, ms
WaitInterval == 1000    \* stop(): waitInterval, ms
TimestampToleranceMs == 300000   \* TIMESTAMP_TOLERANCE_MS = 5 * 60 * 1000
MaxTweetLength == 5000  \* validateVideoRequest: tweetBody.length > 5000
MaxNameLength == 100    \* validateVideoRequest: profileName.length > 100

\* ------------------------------------------------------------------ values
NULL == "null"          \* JavaScript null for string-valued fields
NoTime == -1            \* JavaScript null for time-valued fields
NoResult == 0           \* JavaScript null for job.result
JobIds == 1..MaxJobs    \* the uuids, in the order uuidv4() hands them out
Statuses == {"pending", "processing", "completed", "failed"}
Terminal == {"completed", "failed"}
\* error.message of a rejected pipeline stage: any string, the empty one included
ErrorMessages == {"", "stage failed"}
\* requestData handed to createJob: absent, or a request object
Requests == {NULL, "tweet"}
\* arguments direct callers of the JobManager pass
EmptyPatch == [f \in {} |-> NULL]
Patches == {EmptyPatch, [status |-> "cancelled"], [completedAt |-> NoTime]}
StatusArgs == Statuses \cup {"cancelled"}
PercentArgs == {-1, 50, 101}
ResultArgs == {NoResult, 1}

\* one segment of a path: a file name, with the number of ".meta.json"
\* suffixes appended to it kept apart from its stem
Seg(stem) == [stem |-> stem, meta |-> 0]
\* config.storagePath || '/data/videos'
StoragePath == <<Seg("data"), Seg("videos")>>
\* file names callers pass to the storage provider, as their path segments
PlainName == <<Seg("passwd")>>
TraversalName == <<Seg(".."), Seg(".."), Seg(".."), Seg("etc"), Seg("passwd")>>
OtherName == <<Seg("b.mp4")>>
DotDotName == <<Seg("..")>>
Names == {PlainName, TraversalName, OtherName, DotDotName}
\* buffers callers save, named by their length
Buffers == {1, 2}
NoTag == "none"         \* a caller-supplied metadata field that is absent
\* metadata objects callers pass to save
MetadataArgs == {EmptyPatch, [tag |-> "mine"], [createdAt |-> 0]}
\* contents of a path of the file system
NoFile == [kind |-> "none"]
Directory == [kind |-> "dir"]
\* jobRetentionHours values a CleanupScheduler is constructed with
RetentionArgs == {-1, JobRetentionHours}

VARIABLES
  now,              \* Date.now(), in clock units
  jobs,             \* JobManager.jobs: the Map, as the sequence of its values in insertion order
  nextId,           \* number of uuids handed out so far
  isRunning,        \* VideoGenerationWorker.isRunning
  intervalId,       \* VideoGenerationWorker.intervalId: TRUE iff it holds a timer, FALSE for null
  pollTimers,       \* the event loop: number of registered setInterval timers of the worker
  currentJobCount,  \* VideoGenerationWorker.currentJobCount
  processingJobs,   \* VideoGenerationWorker.processingJobs (a Set)
  task,             \* per job id: the await at which its processJob call is suspended
  stopPc,           \* the stop() call: "idle" (none, or returned) or "waiting" (in its loop)
  elapsed,          \* stop(): local variable elapsed
  launches,         \* history: per job id, number of processJob calls made
  releases,         \* history: per job id, number of slot releases (finally blocks run)
  saving,           \* per job id: the storageProvider.save call its processJob call awaits
  tempFiles,        \* per job id: the path variables its processJob call has set, the
                    \* temporary files present under /tmp, and those whose deletion failed
  disk,             \* the file system: per path, what is stored there
  calls,            \* per client: its storage provider call, suspended at an await or returned
  evict,            \* the cleanupExpiredFiles() call: position, locals, return value
  saved,            \* history: per sanitized name, the last save that returned
  escaped,          \* history: an fs call was made on a path outside storagePath
  sweeper,          \* CleanupScheduler: its fields, and the cleanup() call in progress
  http,             \* the HTTP request being handled, or the last one answered
  held              \* the job objects the last JobManager accessor call returned to its caller

vars == <<now, jobs, nextId, isRunning, intervalId, pollTimers, currentJobCount,
          processingJobs, task, stopPc, elapsed, launches, releases, tempFiles, saving,
          disk, calls, evict, saved, escaped, sweeper, http, held>>

\* the variables of the callers: the HTTP surface and users of the JobManager
edgeVars == <<http, held>>

storageVars == <<disk, calls, evict, saved, escaped>>

workerVars == <<isRunning, intervalId, pollTimers, currentJobCount, processingJobs, task,
                stopPc, elapsed, launches, releases, tempFiles, saving>>

\* the temporary files of a processJob call: `/tmp/${jobId}-screenshot.png` and
\* `/tmp/${jobId}-video.mp4`
TempNames == {"screenshot", "video"}

\* let screenshotPath = null; let videoPath = null; and nothing under /tmp
NoTempFiles == [paths |-> {}, files |-> {}, failed |-> {}]

\* a stage that resolves has set its path variable and written its file
Produced(tf, name) == [tf EXCEPT !.paths = @ \cup {name}, !.files = @ \cup {name}]

\* a stage that rejects: before its path variable is set ("unset"), or after,
\* with nothing written ("absent") or with a file left behind ("partial")
Interrupted(tf, name, left) ==
  CASE left = "unset" -> tf
    [] left = "absent" -> [tf EXCEPT !.paths = @ \cup {name}]
    [] left = "partial" -> Produced(tf, name)

\* mutant of CleanupTempFiles: only the screenshot is deleted
CleanupTempFilesKeepsVideo(tf, failing) ==
  LET deleted == (tf.paths \cap tf.files \cap {"screenshot"}) \ failing
  IN  [paths |-> {}, files |-> tf.files \ deleted,
       failed |-> tf.paths \cap tf.files \cap failing]

\* _cleanupTempFiles(jobId, screenshotPath, videoPath): each path that is set
\* is unlinked if fs.access finds it; failing are the files whose access or
\* unlink rejects with another error than ENOENT, which is logged
CleanupTempFiles(tf, failing) ==
  LET deleted == (tf.paths \cap tf.files) \ failing
  IN  [paths |-> {}, files |-> tf.files \ deleted,
       failed |-> tf.paths \cap tf.files \cap failing]

\* positions of a processJob call
InFlightPcs == {"render", "compose", "save", "cleanup"}
TaskPcs == {"none", "done"} \cup InFlightPcs

\* ------------------------------------------------------------ sequence help
Min(a, b) == IF a <= b THEN a ELSE b

\* mutant of Take: the newest entries instead of the oldest
TakeNewest(s, n) == SubSeq(s, Len(s) - Min(n, Len(s)) + 1, Len(s))

\* Array.prototype.slice(0, n)
Take(s, n) == SubSeq(s, 1, Min(n, Len(s)))

\* Map.has / Map.get on the job store
HasJob(js, id) == \E i \in DOMAIN js : js[i].jobId = id

IndexOf(js, id) == CHOOSE i \in DOMAIN js : js[i].jobId = id

JobOf(js, id) == js[IndexOf(js, id)]

\* job.<fields> = ... on the record stored under id
WithJob(js, id, j) == [js EXCEPT ![IndexOf(js, id)] = j]

\* result of a JobManager method: did it throw, and the store afterwards
Threw(js) == [threw |-> TRUE, jobs |-> js]

Returned(js) == [threw |-> FALSE, jobs |-> js]

\* ---------------------------------------------------------------- JobManager
\* mutant of NewJob: the record starts with a progress step already set
NewJobWithStep(id, req, t) ==
  [jobId |-> id, status |-> "pending", createdAt |-> t,
   completedAt |-> NoTime, request |-> req, result |-> NoResult, error |-> NULL,
   currentStep |-> "queued", progress |-> 0]

NewJob(id, req, t) ==
  [jobId |-> id, status |-> "pending", createdAt |-> t,
   completedAt |-> NoTime, request |-> req, result |-> NoResult, error |-> NULL,
   currentStep |-> NULL, progress |-> 0]

\* createJob(requestData), n ids having been handed out before the call
CreateJobCall(js, n, req, t) ==
  IF req = NULL THEN [threw |-> TRUE, jobs |-> js, jobId |-> 0]
  ELSE [threw |-> FALSE, jobs |-> Append(js, NewJob(n + 1, req, t)), jobId |-> n + 1]

\* Object.assign(job, additionalData)
Assign(j, patch) ==
  [f \in DOMAIN j |-> IF f \in DOMAIN patch THEN patch[f] ELSE j[f]]

UpdateJobStatus(js, id, status, additionalData, t) ==
  IF status \notin Statuses THEN Threw(js)
  ELSE IF ~HasJob(js, id) THEN Threw(js)
  ELSE LET j0 == JobOf(js, id)
           j1 == Assign([j0 EXCEPT !.status = status], additionalData)
           j2 == IF status \in Terminal /\ j1.completedAt = NoTime
                 THEN [j1 EXCEPT !.completedAt = t] ELSE j1
       IN  Returned(WithJob(js, id, j2))

\* mutant of UpdateJobProgress: the record is written before the percentage
\* is checked
UpdateJobProgressWritesFirst(js, id, step, percentage, t) ==
  IF ~HasJob(js, id) THEN Threw(js)
  ELSE LET written == WithJob(js, id,
             [JobOf(js, id) EXCEPT !.currentStep = step, !.progress = percentage])
       IN  IF percentage < 0 \/ percentage > 100 THEN Threw(written)
           ELSE Returned(written)

UpdateJobProgress(js, id, step, percentage, t) ==
  IF percentage < 0 \/ percentage > 100 THEN Threw(js)
  ELSE IF ~HasJob(js, id) THEN Threw(js)
  ELSE Returned(WithJob(js, id,
         [JobOf(js, id) EXCEPT !.currentStep = step, !.progress = percentage]))

SetJobCompleted(js, id, resultData, t) ==
  IF resultData = NoResult THEN Threw(js)
  ELSE IF ~HasJob(js, id) THEN Threw(js)
  ELSE Returned(WithJob(js, id,
         [JobOf(js, id) EXCEPT !.status = "completed",
                               !.completedAt = t, !.progress = 100,
                               !.currentStep = "Completed",
                               !.result = resultData, !.error = NULL]))

\* mutant of SetJobFailed: the progress is reset
SetJobFailedResetsProgress(js, id, errorMessage, t) ==
  IF errorMessage = "" \/ errorMessage = NULL THEN Threw(js)
  ELSE IF ~HasJob(js, id) THEN Threw(js)
  ELSE Returned(WithJob(js, id,
         [JobOf(js, id) EXCEPT !.status = "failed",
                               !.completedAt = t, !.error = errorMessage,
                               !.result = NoResult, !.progress = 0]))

SetJobFailed(js, id, errorMessage, t) ==
  IF errorMessage = "" \/ errorMessage = NULL THEN Threw(js)
  ELSE IF ~HasJob(js, id) THEN Threw(js)
  ELSE Returned(WithJob(js, id,
         [JobOf(js, id) EXCEPT !.status = "failed",
                               !.completedAt = t, !.error = errorMessage,
                               !.result = NoResult]))

\* getJobsByStatus(status), as the ids of the matching records in Map order
GetJobsByStatus(js, status) ==
  LET matching == SelectSeq(js, LAMBDA j : j.status = status)
  IN  [i \in DOMAIN matching |-> matching[i].jobId]

\* what the caller of an accessor holds: { ...job } copies the record's own
\* fields, so every nested object of the copy is the stored record's object.
\* getJob(jobId): null (nothing held) or one copy
GetJob(js, id) == IF ~HasJob(js, id) THEN <<>> ELSE <<JobOf(js, id)>>

\* getAllJobs(): copies in Map order
GetAllJobs(js) == js

\* getJobsByStatus(status): copies of the matching records in Map order
JobsByStatus(js, status) == SelectSeq(js, LAMBDA j : j.status = status)

\* values a caller writes into an object it was handed
Overwritten == "overwritten"

\* copy.status = ... on the i-th held object: the copy's own field
WriteOwnField(hs, i) == [hs EXCEPT ![i].status = Overwritten]

\* copy.request.theme = ... on the i-th held object: the request object is the
\* one the stored record refers to, and every other copy of that record too
WriteRequestField(js, hs, i) ==
  LET id == hs[i].jobId
  IN  [jobs |-> IF HasJob(js, id)
                THEN WithJob(js, id, [JobOf(js, id) EXCEPT !.request = Overwritten])
                ELSE js,
       held |-> [k \in DOMAIN hs |->
                   IF hs[k].jobId = id THEN [hs[k] EXCEPT !.request = Overwritten]
                   ELSE hs[k]]]

\* mutant of KeptJobs: a record exactly olderThanHours old is removed too
KeptJobsInclusive(js, olderThanHours, t) ==
  SelectSeq(js, LAMBDA j : ~(j.createdAt <= t - olderThanHours))

\* the records cleanupExpiredJobs keeps
KeptJobs(js, olderThanHours, t) ==
  SelectSeq(js, LAMBDA j : ~(j.createdAt < t - olderThanHours))

CleanupExpiredJobs(js, olderThanHours, t) ==
  [jobs |-> KeptJobs(js, olderThanHours, t),
   removedCount |-> Len(js) - Len(KeptJobs(js, olderThanHours, t))]

\* getStats()
GetStats(js) ==
  [total |-> Len(js),
   pending |-> Len(GetJobsByStatus(js, "pending")),
   processing |-> Len(GetJobsByStatus(js, "processing")),
   completed |-> Len(GetJobsByStatus(js, "completed")),
   failed |-> Len(GetJobsByStatus(js, "failed"))]

\* -------------------------------------------------- VideoGenerationWorker
\* the filename generateSecureFilename(jobId, 'mp4') returns: fresh per call
FileNameOf(id) == id

\* the worker's mutable state, threaded through one synchronous slice
WorkerState == [jobs |-> jobs, count |-> currentJobCount, proc |-> processingJobs,
                task |-> task, launches |-> launches]

\* mutant of Catch: a record that is gone is stored again as a failed one
CatchRestoresRecord(js, id, message, t) ==
  IF HasJob(js, id) \/ message = "" THEN SetJobFailed(js, id, message, t).jobs
  ELSE Append(js, [NewJob(id, "tweet", t) EXCEPT !.status = "failed", !.error = message])

\* catch (error) { try { setJobFailed(jobId, error.message, error.stack) } catch {} }
Catch(js, id, message, t) == SetJobFailed(js, id, message, t).jobs

\* mutant of ProcessJobStart: the status is not set to 'processing' before the
\* first await
ProcessJobStartKeepsPending(st, id, t) ==
  LET counted == [st EXCEPT !.count = @ + 1, !.launches[id] = @ + 1]
  IN  IF ~HasJob(st.jobs, id)
      THEN [counted EXCEPT !.jobs = Catch(st.jobs, id, "Job not found", t),
                           !.task[id] = "cleanup"]
      ELSE [counted EXCEPT
              !.jobs = UpdateJobProgress(st.jobs, id, "generating_screenshot", 20, t).jobs,
              !.task[id] = "render"]

\* processJob(jobId) from its first line up to its first await
ProcessJobStart(st, id, t) ==
  LET counted == [st EXCEPT !.count = @ + 1, !.launches[id] = @ + 1]
  IN  IF ~HasJob(st.jobs, id)
      THEN [counted EXCEPT !.jobs = Catch(st.jobs, id, "Job not found", t),
                           !.task[id] = "cleanup"]
      ELSE LET s1 == UpdateJobStatus(st.jobs, id, "processing", EmptyPatch, t).jobs
               s2 == UpdateJobProgress(s1, id, "generating_screenshot", 20, t).jobs
           IN  [counted EXCEPT !.jobs = s2, !.task[id] = "render"]

\* jobsToProcess.map(job => ...): the callbacks run one after the other
RECURSIVE LaunchAll(_, _, _)
LaunchAll(st, ids, t) ==
  IF ids = <<>> THEN st
  ELSE LET id == Head(ids)
           next == IF id \in st.proc THEN st
                   ELSE ProcessJobStart([st EXCEPT !.proc = @ \cup {id}], id, t)
       IN  LaunchAll(next, Tail(ids), t)

\* mutant of ProcessQueue: every pending job is launched, whatever the free slots
ProcessQueueIgnoresSlots(st, t) ==
  LaunchAll(st, GetJobsByStatus(st.jobs, "pending"), t)

\* processQueue() up to its await Promise.allSettled
ProcessQueue(st, t) ==
  IF st.count >= MaxConcurrentJobs THEN st
  ELSE LET pendingJobs == GetJobsByStatus(st.jobs, "pending")
           availableSlots == MaxConcurrentJobs - st.count
           jobsToProcess == Take(pendingJobs, availableSlots)
       IN  IF Len(pendingJobs) = 0 THEN st ELSE LaunchAll(st, jobsToProcess, t)

\* write a WorkerState back to the variables
Commit(result) ==
  \E st \in {result} :
  /\ jobs' = st.jobs
  /\ currentJobCount' = st.count
  /\ processingJobs' = st.proc
  /\ task' = st.task
  /\ launches' = st.launches

\* ------------------------------------------------------ LocalStorageProvider
Clients == 1..MaxCalls

\* path.basename(filename): the final segment of the name
Basename(name) == <<name[Len(name)]>>

\* path.join(dir, name) for a one-segment name, normalised: '..' steps up
Join(dir, name) ==
  IF name[1] = Seg("..") THEN SubSeq(dir, 1, Len(dir) - 1) ELSE dir \o name

\* _getFilePath(filename)
GetFilePath(name) == Join(StoragePath, Basename(name))

\* _getMetadataPath(filename): `${filePath}.meta.json`
GetMetadataPath(name) ==
  LET p == GetFilePath(name) IN [p EXCEPT ![Len(p)].meta = @ + 1]

\* every path the provider can be made to address, and every sanitized name
Paths == UNION {{GetFilePath(n), GetMetadataPath(n)} : n \in Names}

Keys == {Basename(n) : n \in Names}

\* p is q or a directory above q
IsPrefix(p, q) == Len(p) <= Len(q) /\ SubSeq(q, 1, Len(p)) = p

\* p is an entry of the storage directory
InsideRoot(p) ==
  Len(p) = Len(StoragePath) + 1 /\ SubSeq(p, 1, Len(StoragePath)) = StoragePath

\* the file system before anything is stored: the directories exist
EmptyDisk == [p \in Paths |-> IF IsPrefix(p, StoragePath) THEN Directory ELSE NoFile]

\* a payload file holding buffer
Bytes(buffer) == [kind |-> "bytes", buf |-> buffer]

\* fs.writeFile(p, content)
WriteFile(d, p, content) ==
  IF d[p].kind = "dir" THEN [code |-> "EISDIR", disk |-> d]
  ELSE [code |-> "", disk |-> [d EXCEPT ![p] = content]]

\* fs.unlink(p)
Unlink(d, p) ==
  IF d[p].kind = "none" THEN [code |-> "ENOENT", disk |-> d]
  ELSE IF d[p].kind = "dir" THEN [code |-> "EISDIR", disk |-> d]
  ELSE [code |-> "", disk |-> [d EXCEPT ![p] = NoFile]]

\* fs.readdir(storagePath): the names of the entries
Readdir(d) == {p[Len(p)] : p \in {q \in Paths : InsideRoot(q) /\ d[q].kind # "none"}}

\* the metadata object save() writes: its own fields, then ...metadata
\* (updatedAt, always equal to createdAt, is left out)
FileMetadata(sanitized, buffer, metadata, t) ==
  Assign([kind |-> "json", filename |-> sanitized, size |-> buffer,
          createdAt |-> t, expiresAt |-> t + TtlHours, ttlHours |-> TtlHours,
          tag |-> NoTag], metadata)

\* _isExpired(metadata)
IsExpired(metadata, t) ==
  IF metadata.createdAt = NoTime THEN FALSE
  ELSE t > metadata.createdAt + TtlHours

\* what a call returned (status "ok") or the message of the error it threw
NoOutcome == [status |-> "none", error |-> "", buf |-> 0, meta |-> NoFile, flag |-> FALSE]

Failed(message) == [NoOutcome EXCEPT !.status = "failed", !.error = message]

Resolved == [NoOutcome EXCEPT !.status = "ok"]

\* history entry of a sanitized name under which no save has returned
NeverSaved == [valid |-> FALSE, buffer |-> 0, at |-> NoTime, metadata |-> EmptyPatch]

\* a client's slot with no call in it
NoCall ==
  [op |-> "none", name |-> <<>>, buffer |-> 0, metadata |-> EmptyPatch,
   pc |-> "idle", begun |-> NoTime, fileMetadata |-> NoFile, stamped |-> NoTime,
   deletedFile |-> FALSE,
   view |-> NeverSaved, solo |-> FALSE, quiet |-> FALSE, outcome |-> NoOutcome]

Active(cl) == cl.pc \notin {"idle", "done"}

\* the call returns or throws: its locals are gone
Finish(cl, outcome) ==
  [cl EXCEPT !.pc = "done", !.outcome = outcome, !.begun = NoTime,
             !.fileMetadata = NoFile, !.stamped = NoTime, !.deletedFile = FALSE,
             !.view = NeverSaved]

\* getMetadata(filename) once its fs.readFile has settled
ReadMetadata(d, name) ==
  LET c == d[GetMetadataPath(name)]
  IN  IF c.kind = "none" THEN [error |-> "Metadata not found", meta |-> NoFile]
      ELSE IF c.kind = "json" THEN [error |-> "", meta |-> c]
      ELSE [error |-> "Failed to retrieve metadata", meta |-> NoFile]

\* mutant of DeleteStep: the metadata file is left in place
DeleteStepKeepsMetadata(d, name, pc) ==
  LET p == IF pc = "unlinkFile" THEN GetFilePath(name) ELSE GetMetadataPath(name)
      u == IF pc = "unlinkFile" THEN Unlink(d, p) ELSE [code |-> "", disk |-> d]
  IN  [disk |-> u.disk, path |-> p,
       threw |-> u.code \notin {"", "ENOENT"}, deleted |-> u.code = ""]

\* delete(filename): the fs.unlink it is waiting for (payload, then metadata) settles
DeleteStep(d, name, pc) ==
  LET p == IF pc = "unlinkFile" THEN GetFilePath(name) ELSE GetMetadataPath(name)
      u == Unlink(d, p)
  IN  [disk |-> u.disk, path |-> p,
       threw |-> u.code \notin {"", "ENOENT"}, deleted |-> u.code = ""]

\* save(): fs.writeFile of the payload settles, then that of the metadata
SaveStep(d, cl, t) ==
  IF cl.pc = "writeFile"
  THEN LET p == GetFilePath(Basename(cl.name))
           w == WriteFile(d, p, Bytes(cl.buffer))
       IN  IF w.code # ""
           THEN [disk |-> d, path |-> p, call |-> Finish(cl, Failed("Failed to save file"))]
           ELSE [disk |-> w.disk, path |-> p,
                 call |-> [cl EXCEPT !.pc = "writeMetadata", !.stamped = t,
                             !.fileMetadata =
                               FileMetadata(Basename(cl.name), cl.buffer, cl.metadata, t)]]
  ELSE LET p == GetMetadataPath(Basename(cl.name))
           w == WriteFile(d, p, cl.fileMetadata)
       IN  IF w.code # ""
           THEN [disk |-> d, path |-> p, call |-> Finish(cl, Failed("Failed to save file"))]
           ELSE [disk |-> w.disk, path |-> p,
                 call |-> Finish(cl, [Resolved EXCEPT !.buf = cl.buffer,
                                                      !.meta = cl.fileMetadata])]

\* the delete(filename) a call is inside: as the call itself, or from get()
\* on an expired file, which then throws 'File has expired'
DeletingStep(d, cl) ==
  LET r == DeleteStep(d, cl.name, cl.pc)
  IN  IF r.threw
      THEN [disk |-> r.disk, path |-> r.path,
            call |-> Finish(cl, Failed("Failed to delete file"))]
      ELSE IF cl.pc = "unlinkFile"
      THEN [disk |-> r.disk, path |-> r.path,
            call |-> [cl EXCEPT !.pc = "unlinkMetadata", !.deletedFile = r.deleted]]
      ELSE [disk |-> r.disk, path |-> r.path,
            call |-> IF cl.op = "get" THEN Finish(cl, Failed("File has expired"))
                     ELSE Finish(cl, [Resolved EXCEPT !.flag = cl.deletedFile \/ r.deleted])]

\* get(): getMetadata settles, then delete (expired) or fs.readFile of the payload
GetStep(d, cl, t) ==
  IF cl.pc = "readMetadata"
  THEN LET r == ReadMetadata(d, cl.name)
       IN  [disk |-> d, path |-> GetMetadataPath(cl.name),
            call |-> IF r.error # "" THEN Finish(cl, Failed(r.error))
                     ELSE IF IsExpired(r.meta, t) THEN [cl EXCEPT !.pc = "unlinkFile"]
                     ELSE [cl EXCEPT !.pc = "readFile"]]
  ELSE IF cl.pc = "readFile"
  THEN LET c == d[GetFilePath(cl.name)]
       IN  [disk |-> d, path |-> GetFilePath(cl.name),
            call |-> IF c.kind = "none" THEN Finish(cl, Failed("File not found"))
                     ELSE IF c.kind = "bytes" THEN Finish(cl, [Resolved EXCEPT !.buf = c.buf])
                     ELSE Finish(cl, Failed("EISDIR"))]
  ELSE DeletingStep(d, cl)

\* exists(): fs.access settles
ExistsStep(d, cl) ==
  [disk |-> d, path |-> GetFilePath(cl.name),
   call |-> Finish(cl, [Resolved EXCEPT !.flag = d[GetFilePath(cl.name)].kind # "none"])]

\* getMetadata(): fs.readFile of the metadata file settles
GetMetadataStep(d, cl) ==
  LET r == ReadMetadata(d, cl.name)
  IN  [disk |-> d, path |-> GetMetadataPath(cl.name),
       call |-> IF r.error # "" THEN Finish(cl, Failed(r.error))
                ELSE Finish(cl, [Resolved EXCEPT !.meta = r.meta])]

\* the awaited fs call of a client's call settles and the call runs on to its
\* next await, or to its end
CallStep(d, cl, t) ==
  CASE cl.op = "save" -> SaveStep(d, cl, t)
    [] cl.op = "get" -> GetStep(d, cl, t)
    [] cl.op = "delete" -> DeletingStep(d, cl)
    [] cl.op = "exists" -> ExistsStep(d, cl)
    [] cl.op = "getMetadata" -> GetMetadataStep(d, cl)

\* the names generateSecureFilename hands out, by the job they are made for
WorkerNames == <<OtherName, PlainName>>

\* mutant of SaveReturned: the job is completed whatever the call's outcome
SaveReturnedIgnoresOutcome(js, id, cl, t) ==
  LET r == SetJobCompleted(js, id, FileNameOf(id), t)
  IN  IF r.threw THEN Catch(js, id, "Job not found", t) ELSE r.jobs

\* processJob when its await of storageProvider.save(...) has settled:
\* setJobCompleted after a return, the catch block after a throw
SaveReturned(js, id, cl, t) ==
  IF cl.outcome.status = "failed" THEN Catch(js, id, cl.outcome.error, t)
  ELSE LET r == SetJobCompleted(js, id, FileNameOf(id), t)
       IN  IF r.threw THEN Catch(js, id, "Job not found", t) ELSE r.jobs

\* a provider call that runs from its first fs call to its end with nothing
\* else in between
RECURSIVE RunCall(_, _, _)
RunCall(d, cl, t) ==
  IF ~Active(cl) THEN [disk |-> d, call |-> cl]
  ELSE LET r == CallStep(d, cl, t) IN RunCall(r.disk, r.call, t)

\* list(), run with nothing else in between: the names of the entries it
\* returns (readdir without the metadata files; an entry whose metadata cannot
\* be read is skipped, an expired one too; fs.stat of a listed entry succeeds)
List(d, t) ==
  {<<f>> : f \in {g \in Readdir(d) :
                    /\ g.meta = 0
                    /\ ReadMetadata(d, <<g>>).error = ""
                    /\ ~IsExpired(ReadMetadata(d, <<g>>).meta, t)}}

\* cleanupExpiredFiles(), run with nothing else in between: the names it
\* calls delete for
Evicted(d, t) ==
  {<<f>> : f \in {g \in Readdir(d) :
                    /\ g.meta = 0
                    /\ ReadMetadata(d, <<g>>).error = ""
                    /\ IsExpired(ReadMetadata(d, <<g>>).meta, t)}}

\* cleanupExpiredFiles(): not called, or returned, or thrown
NoEvict ==
  [pc |-> "idle", todo |-> {}, cur |-> Seg(""), deletedCount |-> 0,
   clean |-> FALSE, startedAt |-> NoTime, before |-> EmptyDisk,
   status |-> "none", count |-> 0]

EvictActive == evict.pc \notin {"idle", "done"}

\* cleanupExpiredFiles(): the for loop moves on to its next file name, or ends
\* and the call returns deletedCount
EvictContinue(ev) ==
  IF ev.todo = {}
  THEN {[ev EXCEPT !.pc = "done", !.status = "ok", !.count = ev.deletedCount,
                   !.cur = Seg(""), !.deletedCount = 0]}
  ELSE {[ev EXCEPT !.pc = "readMetadata", !.cur = f, !.todo = @ \ {f}] : f \in ev.todo}

\* a new scheduler: new CleanupScheduler(storage, jobManager, 60, hours)
NoResults == [filesRemoved |-> 0, jobsCleaned |-> 0, errors |-> <<>>]

\* what the two sub-calls of the latest cleanup() pass returned; NoCount for
\* a sub-call that has not returned or threw
NoCount == NoTime

NoReturns == [files |-> NoCount, jobs |-> NoCount]

NewScheduler(hours) ==
  [isRunning |-> FALSE, intervalId |-> FALSE, jobRetentionHours |-> hours,
   pc |-> "idle", results |-> NoResults, passes |-> 0, settled |-> "none",
   returns |-> NoReturns, timers |-> 0]

\* jobManager.cleanupExpiredJobs(olderThanHours), with its argument check
CleanupExpiredJobsCall(js, olderThanHours, t) ==
  IF olderThanHours <= 0
  THEN [threw |-> TRUE, jobs |-> js, removedCount |-> 0]
  ELSE [threw |-> FALSE, jobs |-> CleanupExpiredJobs(js, olderThanHours, t).jobs,
        removedCount |-> CleanupExpiredJobs(js, olderThanHours, t).removedCount]

\* filesResult.removedCount || 0 and jobsResult.cleanedCount || 0: both
\* sub-calls return a number, whose property is undefined
CountField(number) == 0

FilesError == "Failed to cleanup expired files"
JobsError == "Failed to cleanup expired jobs"

\* mutant of CleanupRest: a failure of the file cleanup ends the pass
CleanupRestAborting(sw, ev, js, t) ==
  IF ev.status = "failed"
  THEN [sweeper |-> [sw EXCEPT !.pc = "idle", !.settled = "threw",
                                   !.returns = NoReturns],
        jobs |-> js]
  ELSE LET r == CleanupExpiredJobsCall(js, sw.jobRetentionHours, t)
           results == [filesRemoved |-> CountField(ev.count),
                       jobsCleaned |-> IF r.threw THEN 0 ELSE CountField(r.removedCount),
                       errors |-> IF r.threw THEN <<JobsError>> ELSE <<>>]
       IN  [sweeper |-> [sw EXCEPT !.pc = "idle", !.settled = "returned",
                                   !.results = results,
                                   !.returns = [files |-> ev.count,
                                                jobs |-> IF r.threw THEN NoCount
                                                         ELSE r.removedCount]],
            jobs |-> r.jobs]

\* cleanup() from the moment its await of cleanupExpiredFiles() settles (ev)
\* to its return: the first try/catch ends, the second one runs
CleanupRest(sw, ev, js, t) ==
  LET files == IF ev.status = "failed"
               THEN [sw.results EXCEPT !.errors = Append(@, FilesError)]
               ELSE [sw.results EXCEPT !.filesRemoved = CountField(ev.count)]
      r == CleanupExpiredJobsCall(js, sw.jobRetentionHours, t)
      results == IF r.threw
                 THEN [files EXCEPT !.errors = Append(@, JobsError)]
                 ELSE [files EXCEPT !.jobsCleaned = CountField(r.removedCount)]
  IN  [sweeper |-> [sw EXCEPT !.pc = "idle", !.settled = "returned",
                              !.results = results,
                              !.returns = [files |-> IF ev.status = "failed"
                                                     THEN NoCount ELSE ev.count,
                                           jobs |-> IF r.threw THEN NoCount
                                                    ELSE r.removedCount]],
       jobs |-> r.jobs]

\* --------------------------------------------------- signature verifier
\* a string-valued field of a request body, by its text and length; a
\* number-valued one; an absent one
Str(text, length) == [type |-> "string", text |-> text, length |-> length]

Num == [type |-> "number", text |-> "7", length |-> 0]

Undefined == [type |-> "undefined", text |-> "", length |-> 0]

\* req.body as express.json() leaves it: always an object
ValidBody ==
  [tweetBody |-> Str("hello", 5), profilePhotoUrl |-> Str("https://x.test/p.png", 20),
   profileName |-> Str("Ann", 3), username |-> Str("ann", 3), theme |-> Undefined]

EmptyBody ==
  [tweetBody |-> Undefined, profilePhotoUrl |-> Undefined, profileName |-> Undefined,
   username |-> Undefined, theme |-> Undefined]

\* JSON.stringify(body): the text of the object, its absent fields left out
JsonStringify(body) ==
  [json |-> [f \in {g \in DOMAIN body : body[g].type # "undefined"} |-> body[f]]]

\* `${timestampStr}:${bodyStr}`
Message(timestampStr, bodyStr) == [timestamp |-> timestampStr, body |-> bodyStr]

\* a header that was not sent; an empty one is as falsy
NoHeader == ""

\* the X-Timestamp header values requests carry
TimestampHeaders ==
  {NoHeader, "abc", "0", "-1000", "699", "700", "1000", "1000.0", "1300", "1301"}

\* Number(timestamp): NaN, or the number the text denotes
NumberOf(timestamp) ==
  CASE timestamp = NoHeader -> [nan |-> FALSE, value |-> 0]
    [] timestamp = "abc" -> [nan |-> TRUE, value |-> 0]
    [] timestamp = "0" -> [nan |-> FALSE, value |-> 0]
    [] timestamp = "-1000" -> [nan |-> FALSE, value |-> -1000]
    [] timestamp = "699" -> [nan |-> FALSE, value |-> 699]
    [] timestamp = "700" -> [nan |-> FALSE, value |-> 700]
    [] timestamp = "1000" -> [nan |-> FALSE, value |-> 1000]
    [] timestamp = "1000.0" -> [nan |-> FALSE, value |-> 1000]
    [] timestamp = "1300" -> [nan |-> FALSE, value |-> 1300]
    [] timestamp = "1301" -> [nan |-> FALSE, value |-> 1301]

\* Date.now() at the requests, in ms
AuthTimes == {1000000, 1000500}

\* process.env.HMAC_SECRET: unset, or a key
NoSecret == ""

Secrets == {NoSecret, "k1", "k2"}

\* a hex digest: the HMAC-SHA256 of a message under a key, taken to be free of
\* collisions, spelled in lower or upper case hex digits, whole or cut short
Hex(key, message, upper, cut) ==
  [present |-> TRUE, key |-> key, message |-> message, upper |-> upper, cut |-> cut]

\* no X-Signature header
NoSignature ==
  [present |-> FALSE, key |-> NoSecret, message |-> Message(NoHeader, JsonStringify(EmptyBody)),
   upper |-> FALSE, cut |-> FALSE]

\* signature.toLowerCase()
ToLowerCase(signature) == [signature EXCEPT !.upper = FALSE]

\* generateSignature(timestamp, body, secret); the caller has checked the secret
GenerateSignature(timestamp, body, secret) ==
  Hex(secret, Message(timestamp, JsonStringify(body)), FALSE, FALSE)

\* timingSafeEqual(a, b): equal lengths and equal bytes
TimingSafeEqual(a, b) == a.cut = b.cut /\ a = b

\* validateTimestamp(timestamp) at time ms
ValidateTimestamp(timestamp, ms) ==
  LET timestampNum == NumberOf(timestamp)
      timestampMs == timestampNum.value * 1000
      timeDifference == IF ms >= timestampMs THEN ms - timestampMs ELSE timestampMs - ms
  IN  IF timestampNum.nan \/ timestampNum.value <= 0 THEN FALSE
      ELSE ~(timeDifference > TimestampToleranceMs)

\* what a middleware did with a request: the status of the response it sent
\* (0: none), the number of responses sent and of next() calls made
Responded(status) == [status |-> status, responses |-> 1, nextCalls |-> 0]

CalledNext == [status |-> 0, responses |-> 0, nextCalls |-> 1]

\* mutant of VerifySignature: the body is left out of the signed message
VerifySignatureIgnoresBody(req, secret, ms) ==
  IF secret = NoSecret THEN Responded(500)
  ELSE IF ~req.signature.present THEN Responded(401)
  ELSE IF req.timestamp = NoHeader THEN Responded(401)
  ELSE IF ~ValidateTimestamp(req.timestamp, ms) THEN Responded(401)
  ELSE IF ~TimingSafeEqual(ToLowerCase(req.signature),
                           ToLowerCase(GenerateSignature(req.timestamp, ValidBody, secret)))
  THEN Responded(401)
  ELSE CalledNext

\* verifySignature(req, res, next) at time ms, with HMAC_SECRET = secret
VerifySignature(req, secret, ms) ==
  IF secret = NoSecret THEN Responded(500)
  ELSE IF ~req.signature.present THEN Responded(401)
  ELSE IF req.timestamp = NoHeader THEN Responded(401)
  ELSE IF ~ValidateTimestamp(req.timestamp, ms) THEN Responded(401)
  ELSE IF ~TimingSafeEqual(ToLowerCase(req.signature),
                           ToLowerCase(GenerateSignature(req.timestamp, req.body, secret)))
  THEN Responded(401)
  ELSE CalledNext

\* the requests sent to a route behind verifySignature
SignedTimestamps == {"700", "1000", "1000.0"}

SignedBodies == {ValidBody, [ValidBody EXCEPT !.theme = Str("light", 5)], EmptyBody}

SignatureHeaders ==
  {NoSignature}
    \cup {Hex(key, Message(t, JsonStringify(body)), upper, FALSE) :
            key \in {"k1", "k2"}, t \in SignedTimestamps,
            body \in SignedBodies, upper \in BOOLEAN}
    \cup {Hex("k1", Message("1000", JsonStringify(ValidBody)), FALSE, TRUE)}

AuthRequests ==
  [signature : SignatureHeaders, timestamp : TimestampHeaders, body : SignedBodies]

\* no request has been handled
NoRequest ==
  [route |-> "none", request |-> [signature |-> NoSignature, timestamp |-> NoHeader,
                                  body |-> EmptyBody],
   secret |-> NoSecret, at |-> 0, response |-> [status |-> 0, responses |-> 0, nextCalls |-> 0]]

\* ------------------------------------------------------ request handlers
\* !value of a body field
Falsy(value) ==
  value.type = "undefined" \/ (value.type = "string" /\ value.length = 0)

\* new URL(text) does not throw
IsUrl(text) == text \in {"https://x.test/p.png"}

\* validateVideoRequest(req, res, next)
ValidateVideoRequest(req) ==
  LET body == req.body
      Required(value) == ~Falsy(value) /\ value.type = "string"
  IN  IF ~Required(body.tweetBody) THEN Responded(400)
      ELSE IF ~Required(body.profilePhotoUrl) THEN Responded(400)
      ELSE IF ~Required(body.profileName) THEN Responded(400)
      ELSE IF ~Required(body.username) THEN Responded(400)
      ELSE IF body.tweetBody.length > MaxTweetLength THEN Responded(400)
      ELSE IF body.profileName.length > MaxNameLength THEN Responded(400)
      ELSE IF ~Falsy(body.theme) /\ body.theme.text \notin {"dark", "light"}
      THEN Responded(400)
      ELSE IF ~IsUrl(body.profilePhotoUrl.text) THEN Responded(400)
      ELSE CalledNext

\* the route handler of POST /generate-video: createJob, getJob, 202
GenerateVideoHandler(req, js, n, t) ==
  LET r == CreateJobCall(js, n, req.body.tweetBody.text, t)
  IN  IF r.threw
      THEN [response |-> Responded(500), jobs |-> js, nextId |-> n]
      ELSE [response |-> Responded(202), jobs |-> r.jobs, nextId |-> r.jobId]

\* mutant of GenerateVideo: the job is created before the body is validated
GenerateVideoCreatesFirst(req, secret, ms, js, n, t) ==
  LET auth == VerifySignature(req, secret, ms)
      valid == ValidateVideoRequest(req)
      made == CreateJobCall(js, n, req.body.tweetBody.text, t)
  IN  IF auth.nextCalls = 0 THEN [response |-> auth, jobs |-> js, nextId |-> n]
      ELSE IF valid.nextCalls = 0
      THEN [response |-> valid, jobs |-> made.jobs, nextId |-> made.jobId]
      ELSE GenerateVideoHandler(req, js, n, t)

\* app.post('/generate-video', verifySignature, validateVideoRequest, handler):
\* each middleware either answers or calls the next one
GenerateVideo(req, secret, ms, js, n, t) ==
  LET auth == VerifySignature(req, secret, ms)
      valid == ValidateVideoRequest(req)
  IN  IF auth.nextCalls = 0 THEN [response |-> auth, jobs |-> js, nextId |-> n]
      ELSE IF valid.nextCalls = 0 THEN [response |-> valid, jobs |-> js, nextId |-> n]
      ELSE GenerateVideoHandler(req, js, n, t)

\* the bodies and the signers of the requests POST /generate-video receives
ApiBodies ==
  {ValidBody, EmptyBody,
   [ValidBody EXCEPT !.theme = Str("light", 5)],
   [ValidBody EXCEPT !.theme = Str("blue", 4)],
   [ValidBody EXCEPT !.tweetBody = Num],
   [ValidBody EXCEPT !.tweetBody = Str("", 0)],
   [ValidBody EXCEPT !.tweetBody = Str("long", MaxTweetLength + 1)],
   [ValidBody EXCEPT !.profileName = Str("long", MaxNameLength + 1)],
   [ValidBody EXCEPT !.profilePhotoUrl = Str("not a url", 9)],
   [ValidBody EXCEPT !.username = Undefined]}

\* each body unsigned, signed under the right or a wrong key, or sent with the
\* signature of another body, in time or too late
ApiRequests ==
  {[signature |-> IF signer = NoSecret THEN NoSignature
                  ELSE GenerateSignature(timestamp,
                                         IF signer = "other" THEN ValidBody ELSE body,
                                         IF signer = "other" THEN "k1" ELSE signer),
    timestamp |-> timestamp, body |-> body] :
     signer \in {NoSecret, "k1", "k2", "other"},
     timestamp \in {"1000", "699"}, body \in ApiBodies}

\* getStatus() (pollInterval, a constant of the worker, is left out)
GetStatus(running, count, proc) ==
  [isRunning |-> running, currentJobCount |-> count,
   maxConcurrentJobs |-> MaxConcurrentJobs, processingJobs |-> proc]

\* res.json of a property that holds a boolean, or is undefined and left out
JsonFlag(obj, name) ==
  IF name \notin DOMAIN obj THEN "absent"
  ELSE IF obj[name] THEN "true" ELSE "false"

\* obj.name || 0 for a property that holds a number or is undefined
OrZero(obj, name) == IF name \in DOMAIN obj /\ obj[name] # 0 THEN obj[name] ELSE 0

\* GET /health: the worker and jobs parts of the body
Health(stats, workerStatus) ==
  [worker |-> [running |-> JsonFlag(workerStatus, "running"),
               currentJobs |-> OrZero(workerStatus, "currentJobs"),
               maxConcurrentJobs |-> OrZero(workerStatus, "maxConcurrentJobs")],
   jobs |-> [total |-> stats.total, pending |-> stats.pending,
             processing |-> stats.processing, completed |-> stats.completed,
             failed |-> stats.failed]]

\* what isValidFilename looks at in a file name: its text is the segments
\* joined by '/'
FilenameText(name) ==
  CASE name = PlainName -> [length |-> 6, traversal |-> FALSE, allowed |-> TRUE,
                            parts |-> 1, extension |-> "passwd", edgeDot |-> FALSE]
    [] name = OtherName -> [length |-> 5, traversal |-> FALSE, allowed |-> TRUE,
                            parts |-> 2, extension |-> "mp4", edgeDot |-> FALSE]
    [] name = DotDotName -> [length |-> 2, traversal |-> TRUE, allowed |-> TRUE,
                             parts |-> 3, extension |-> "", edgeDot |-> TRUE]
    [] name = TraversalName -> [length |-> 19, traversal |-> TRUE, allowed |-> FALSE,
                                parts |-> 7, extension |-> "/etc/passwd",
                                edgeDot |-> TRUE]

AllowedExtensions == {"mp4", "mov", "avi", "webm"}

\* isValidFilename(filename)
IsValidFilename(name) ==
  LET text == FilenameText(name)
  IN  IF text.length = 0 THEN FALSE
      ELSE IF text.length > 255 THEN FALSE
      ELSE IF text.length < 3 THEN FALSE
      ELSE IF text.traversal THEN FALSE
      ELSE IF ~text.allowed THEN FALSE
      ELSE IF text.parts < 2 THEN FALSE
      ELSE IF text.extension \notin AllowedExtensions THEN FALSE
      ELSE ~text.edgeDot

\* the storage call the download handler awaits, up to its first fs call
OwnCall(op, name, first, t) ==
  [NoCall EXCEPT !.op = op, !.name = name, !.pc = first, !.begun = t]

\* GET /download/:filename up to its first await: the 400 of a name that
\* fails validation, or the call of storage.exists
DownloadBegins(name, t) ==
  IF ~IsValidFilename(name)
  THEN [response |-> Responded(400), call |-> NoCall, buffer |-> 0, sent |-> 0]
  ELSE [response |-> [status |-> 0, responses |-> 0, nextCalls |-> 0],
        call |-> OwnCall("exists", name, "access", t), buffer |-> 0, sent |-> 0]

\* GET /download/:filename resumes when the storage call it awaits has
\* returned or thrown: the next call, or the response (a throw is caught: 500)
DownloadResumes(h, cl, t) ==
  IF cl.outcome.status = "failed"
  THEN [response |-> Responded(500), call |-> cl, buffer |-> h.buffer, sent |-> 0]
  ELSE IF cl.op = "exists"
  THEN IF ~cl.outcome.flag
       THEN [response |-> Responded(404), call |-> cl, buffer |-> 0, sent |-> 0]
       ELSE [response |-> h.response, buffer |-> 0, sent |-> 0,
             call |-> OwnCall("get", cl.name, "readMetadata", t)]
  ELSE IF cl.op = "get"
  THEN [response |-> h.response, buffer |-> cl.outcome.buf, sent |-> 0,
        call |-> OwnCall("getMetadata", cl.name, "readMetadata", t)]
  ELSE [response |-> Responded(200), call |-> cl, buffer |-> h.buffer,
        sent |-> h.buffer]

\* the artifact stored under a name, as the file system holds it: both files
\* present, and the expiry time written in its metadata
Stored(d, name) ==
  LET f == d[GetFilePath(name)]
      m == d[GetMetadataPath(name)]
  IN  IF f.kind = "bytes" /\ m.kind = "json"
      THEN [known |-> TRUE, buffer |-> f.buf, expiresAt |-> m.expiresAt]
      ELSE [known |-> FALSE, buffer |-> 0, expiresAt |-> NoTime]


\* ----------------------------------------------------------------- Init
\* the stores and the worker after construction
InitStores ==
  /\ now = 0
  /\ jobs = <<>>
  /\ nextId = 0
  /\ isRunning = FALSE
  /\ intervalId = FALSE
  /\ pollTimers = 0
  /\ currentJobCount = 0
  /\ processingJobs = {}
  /\ task = [id \in JobIds |-> "none"]
  /\ stopPc = "idle"
  /\ elapsed = 0
  /\ launches = [id \in JobIds |-> 0]
  /\ releases = [id \in JobIds |-> 0]
  /\ tempFiles = [id \in JobIds |-> NoTempFiles]
  /\ saving = [id \in JobIds |-> NoCall]
  /\ disk = [p \in Paths |-> IF IsPrefix(p, StoragePath) THEN Directory ELSE NoFile]
  /\ calls = [c \in Clients |-> NoCall]
  /\ evict = NoEvict
  /\ saved = [k \in Keys |-> NeverSaved]
  /\ escaped = FALSE
  /\ http = NoRequest
  /\ held = <<>>

Init ==
  /\ InitStores
  /\ sweeper = NewScheduler(JobRetentionHours)

\* the same with a scheduler constructed from any configured retention
InitSweeper ==
  /\ InitStores
  /\ \E hours \in RetentionArgs : sweeper = NewScheduler(hours)

\* -------------------------------------------------------------- actions
\* time passes
AdvanceClock ==
  /\ now < MaxTime
  /\ now' = now + 1
  /\ UNCHANGED <<jobs, nextId>>
  /\ UNCHANGED workerVars
  /\ UNCHANGED <<disk, calls, evict, saved, escaped, sweeper>>
  /\ UNCHANGED edgeVars

\* POST /generate-video -> jobManager.createJob(requestData)
CreateJob ==
  /\ nextId < MaxJobs
  /\ \E req \in Requests :
        LET r == CreateJobCall(jobs, nextId, req, now)
        IN  /\ jobs' = r.jobs            \* a throw leaves the store as it was
            /\ nextId' = IF r.threw THEN nextId ELSE r.jobId
  /\ UNCHANGED now
  /\ UNCHANGED workerVars
  /\ UNCHANGED storageVars
  /\ UNCHANGED sweeper
  /\ UNCHANGED edgeVars

\* CleanupScheduler.cleanup(): jobManager.cleanupExpiredJobs(jobRetentionHours)
SweepJobs ==
  /\ jobs' = CleanupExpiredJobs(jobs, JobRetentionHours, now).jobs
  /\ UNCHANGED <<now, nextId>>
  /\ UNCHANGED workerVars
  /\ UNCHANGED storageVars
  /\ UNCHANGED sweeper
  /\ UNCHANGED edgeVars

\* mutant of StartCall: no check of isRunning
StartCallUnchecked ==
  /\ isRunning' = TRUE
  /\ intervalId' = TRUE
  /\ pollTimers' = pollTimers + 1
  /\ Commit(ProcessQueue(WorkerState, now))
  /\ UNCHANGED <<now, nextId, stopPc, elapsed, releases>>
  /\ UNCHANGED storageVars
  /\ UNCHANGED sweeper
  /\ UNCHANGED edgeVars
  /\ UNCHANGED tempFiles
  /\ UNCHANGED saving

\* worker.start()
StartCall ==
  /\ IF isRunning
     THEN UNCHANGED <<jobs, isRunning, intervalId, pollTimers, currentJobCount,
                      processingJobs, task, launches>>
     ELSE /\ isRunning' = TRUE
          /\ intervalId' = TRUE
          /\ pollTimers' = pollTimers + 1
          /\ Commit(ProcessQueue(WorkerState, now))
  /\ UNCHANGED <<now, nextId, stopPc, elapsed, releases>>
  /\ UNCHANGED storageVars
  /\ UNCHANGED sweeper
  /\ UNCHANGED edgeVars
  /\ UNCHANGED tempFiles
  /\ UNCHANGED saving

\* worker.start(), not called while a stop() call is still in its wait loop
Start ==
  /\ stopPc = "idle"
  /\ StartCall

\* the setInterval callback of a registered timer: one poll tick
Tick ==
  /\ pollTimers > 0
  /\ Commit(ProcessQueue(WorkerState, now))
  /\ UNCHANGED <<now, nextId, isRunning, intervalId, pollTimers, stopPc, elapsed, releases>>
  /\ UNCHANGED storageVars
  /\ UNCHANGED sweeper
  /\ UNCHANGED edgeVars
  /\ UNCHANGED tempFiles
  /\ UNCHANGED saving

\* mutant of Stop: the poll timer is left registered
StopKeepsTimer ==
  /\ stopPc = "idle"
  /\ isRunning
  /\ isRunning' = FALSE
  /\ elapsed' = 0
  /\ stopPc' = IF currentJobCount > 0 THEN "waiting" ELSE "idle"
  /\ UNCHANGED <<now, jobs, nextId, intervalId, pollTimers, currentJobCount, processingJobs,
                 task, launches, releases>>
  /\ UNCHANGED storageVars
  /\ UNCHANGED sweeper
  /\ UNCHANGED edgeVars
  /\ UNCHANGED tempFiles
  /\ UNCHANGED saving

\* worker.stop() up to its first await (or its return); one call outstanding at a time
Stop ==
  /\ stopPc = "idle"
  /\ IF ~isRunning
     THEN UNCHANGED <<isRunning, intervalId, pollTimers, stopPc, elapsed>>
     ELSE /\ isRunning' = FALSE
          /\ intervalId' = FALSE
          /\ pollTimers' = IF intervalId THEN pollTimers - 1 ELSE pollTimers
          /\ elapsed' = 0
          /\ stopPc' = IF currentJobCount > 0 /\ 0 < MaxWaitTime
                       THEN "waiting" ELSE "idle"
  /\ UNCHANGED <<now, jobs, nextId, currentJobCount, processingJobs, task,
                 launches, releases>>
  /\ UNCHANGED storageVars
  /\ UNCHANGED sweeper
  /\ UNCHANGED edgeVars
  /\ UNCHANGED tempFiles
  /\ UNCHANGED saving

\* stop(): one setTimeout(waitInterval) elapses, then the loop condition again
StopWaitRound ==
  /\ stopPc = "waiting"
  /\ LET e == elapsed + WaitInterval
     IN  IF currentJobCount > 0 /\ e < MaxWaitTime
         THEN /\ elapsed' = e
              /\ UNCHANGED stopPc
         ELSE /\ elapsed' = 0
              /\ stopPc' = "idle"
  /\ UNCHANGED <<now, jobs, nextId, isRunning, intervalId, pollTimers, currentJobCount,
                 processingJobs, task, launches, releases>>
  /\ UNCHANGED storageVars
  /\ UNCHANGED sweeper
  /\ UNCHANGED edgeVars
  /\ UNCHANGED tempFiles
  /\ UNCHANGED saving

\* Stage A: await templateRenderer.render(...) and await screenshotGenerator.generate(...)
\* have resolved (no shared state is written between the two awaits)
RenderDone(id) ==
  /\ task[id] = "render"
  /\ LET r == UpdateJobProgress(jobs, id, "composing_video", 60, now)
     IN  IF r.threw
         THEN /\ jobs' = Catch(jobs, id, "Job not found", now)
              /\ task' = [task EXCEPT ![id] = "cleanup"]
         ELSE /\ jobs' = r.jobs
              /\ task' = [task EXCEPT ![id] = "compose"]
  /\ tempFiles' = [tempFiles EXCEPT ![id] = Produced(@, "screenshot")]
  /\ UNCHANGED <<now, nextId, isRunning, intervalId, pollTimers, currentJobCount,
                 processingJobs, stopPc, elapsed, launches, releases>>
  /\ UNCHANGED storageVars
  /\ UNCHANGED sweeper
  /\ UNCHANGED edgeVars
  /\ UNCHANGED saving

\* Stage B: await videoComposer.initialize() and await videoComposer.compose(...)
\* have resolved
ComposeDone(id) ==
  /\ task[id] = "compose"
  /\ LET r == UpdateJobProgress(jobs, id, "saving_file", 80, now)
     IN  IF r.threw
         THEN /\ jobs' = Catch(jobs, id, "Job not found", now)
              /\ task' = [task EXCEPT ![id] = "cleanup"]
         ELSE /\ jobs' = r.jobs
              /\ task' = [task EXCEPT ![id] = "save"]
  /\ tempFiles' = [tempFiles EXCEPT ![id] = Produced(@, "video")]
  /\ UNCHANGED <<now, nextId, isRunning, intervalId, pollTimers, currentJobCount,
                 processingJobs, stopPc, elapsed, launches, releases>>
  /\ UNCHANGED storageVars
  /\ UNCHANGED sweeper
  /\ UNCHANGED edgeVars
  /\ UNCHANGED saving

\* Persist: await fs.readFile(videoPath) and await storageProvider.save(...)
\* have resolved
SaveDone(id) ==
  /\ task[id] = "save"
  /\ LET r == SetJobCompleted(jobs, id, FileNameOf(id), now)
     IN  jobs' = IF r.threw THEN Catch(jobs, id, "Job not found", now) ELSE r.jobs
  /\ task' = [task EXCEPT ![id] = "cleanup"]
  /\ UNCHANGED <<now, nextId, isRunning, intervalId, pollTimers, currentJobCount,
                 processingJobs, stopPc, elapsed, launches, releases>>
  /\ UNCHANGED storageVars
  /\ UNCHANGED sweeper
  /\ UNCHANGED edgeVars
  /\ UNCHANGED tempFiles
  /\ UNCHANGED saving

\* the awaited stage call rejects with an error carrying message, having got
\* as far as left with its temporary file
StageFailsWith(id, message, left) ==
  /\ task[id] \in InFlightPcs \ {"cleanup"}
  /\ jobs' = Catch(jobs, id, message, now)
  /\ task' = [task EXCEPT ![id] = "cleanup"]
  /\ tempFiles' = [tempFiles EXCEPT ![id] =
                     CASE task[id] = "render" -> Interrupted(@, "screenshot", left)
                       [] task[id] = "compose" -> Interrupted(@, "video", left)
                       [] OTHER -> @]
  /\ UNCHANGED <<now, nextId, isRunning, intervalId, pollTimers, currentJobCount,
                 processingJobs, stopPc, elapsed, launches, releases>>
  /\ UNCHANGED storageVars
  /\ UNCHANGED sweeper
  /\ UNCHANGED edgeVars
  /\ UNCHANGED saving

\* the awaited stage call rejects before it has set its path variable
StageFails(id, message) == StageFailsWith(id, message, "unset")

\* Persist, first await: fs.readFile(videoPath) has resolved with the composed
\* bytes; storageProvider.save(filename, videoBuffer, {...}) runs to its first
\* fs call
ReadVideoDone(id, buffer) ==
  /\ task[id] = "save"
  /\ id \in DOMAIN WorkerNames
  /\ saving[id].op = "none"
  /\ saving' = [saving EXCEPT ![id] =
                  [NoCall EXCEPT !.op = "save", !.name = WorkerNames[id],
                                 !.buffer = buffer, !.pc = "writeFile", !.begun = now]]
  /\ UNCHANGED <<now, jobs, nextId, isRunning, intervalId, pollTimers, currentJobCount,
                 processingJobs, task, stopPc, elapsed, launches, releases, tempFiles>>
  /\ UNCHANGED storageVars
  /\ UNCHANGED sweeper
  /\ UNCHANGED edgeVars

\* an fs.writeFile of the job's save call settles (rejects: it rejects, whatever
\* the path); when that ends the call, processJob resumes in the same turn
SaveSettles(id, rejects) ==
  /\ task[id] = "save"
  /\ Active(saving[id])
  /\ \E r \in {IF rejects
               THEN [disk |-> disk, path |-> GetFilePath(saving[id].name),
                     call |-> Finish(saving[id], Failed("Failed to save file"))]
               ELSE CallStep(disk, saving[id], now)} :
       /\ disk' = r.disk
       /\ escaped' = (escaped \/ ~InsideRoot(r.path))
       /\ saving' = [saving EXCEPT ![id] = r.call]
       /\ IF Active(r.call) THEN UNCHANGED <<jobs, task>>
          ELSE /\ jobs' = SaveReturned(jobs, id, r.call, now)
               /\ task' = [task EXCEPT ![id] = "cleanup"]
  /\ evict' = IF EvictActive THEN [evict EXCEPT !.clean = FALSE, !.before = EmptyDisk]
              ELSE evict
  /\ UNCHANGED <<calls, saved>>
  /\ UNCHANGED <<now, nextId, isRunning, intervalId, pollTimers, currentJobCount,
                 processingJobs, stopPc, elapsed, launches, releases, tempFiles>>
  /\ UNCHANGED sweeper
  /\ UNCHANGED edgeVars

\* await _cleanupTempFiles(...) resolves; finally { currentJobCount-- };
\* then the .finally() callback of processQueue: processingJobs.delete(jobId)
CleanupDoneWith(id, failing) ==
  /\ task[id] = "cleanup"
  /\ currentJobCount' = currentJobCount - 1
  /\ processingJobs' = processingJobs \ {id}
  /\ task' = [task EXCEPT ![id] = "done"]
  /\ releases' = [releases EXCEPT ![id] = @ + 1]
  /\ tempFiles' = [tempFiles EXCEPT ![id] = CleanupTempFiles(@, failing)]
  /\ UNCHANGED <<now, jobs, nextId, isRunning, intervalId, pollTimers, stopPc, elapsed, launches>>
  /\ UNCHANGED storageVars
  /\ UNCHANGED sweeper
  /\ UNCHANGED edgeVars
  /\ UNCHANGED saving

\* the same when every deletion succeeds
CleanupDone(id) == CleanupDoneWith(id, {})

\* direct calls of the JobManager's mutators, with any arguments
ApiUpdateJobStatus(id, status, patch) ==
  /\ jobs' = UpdateJobStatus(jobs, id, status, patch, now).jobs
  /\ UNCHANGED <<now, nextId>>
  /\ UNCHANGED workerVars
  /\ UNCHANGED storageVars
  /\ UNCHANGED sweeper
  /\ UNCHANGED edgeVars

ApiUpdateJobProgress(id, percentage) ==
  /\ jobs' = UpdateJobProgress(jobs, id, "step", percentage, now).jobs
  /\ UNCHANGED <<now, nextId>>
  /\ UNCHANGED workerVars
  /\ UNCHANGED storageVars
  /\ UNCHANGED sweeper
  /\ UNCHANGED edgeVars

ApiSetJobCompleted(id, resultData) ==
  /\ jobs' = SetJobCompleted(jobs, id, resultData, now).jobs
  /\ UNCHANGED <<now, nextId>>
  /\ UNCHANGED workerVars
  /\ UNCHANGED storageVars
  /\ UNCHANGED sweeper
  /\ UNCHANGED edgeVars

ApiSetJobFailed(id, message) ==
  /\ jobs' = SetJobFailed(jobs, id, message, now).jobs
  /\ UNCHANGED <<now, nextId>>
  /\ UNCHANGED workerVars
  /\ UNCHANGED storageVars
  /\ UNCHANGED sweeper
  /\ UNCHANGED edgeVars

\* a client calls a method of the storage provider: the call runs up to its
\* first fs call (first is the await it stops at)
BeginCall(c, op, name, buffer, metadata, first) ==
  /\ ~Active(calls[c])
  /\ LET key == Basename(name)
         others == {d \in Clients \ {c} :
                      Active(calls[d]) /\ Basename(calls[d].name) = key}
     IN  /\ calls' = [d \in Clients |->
                        IF d = c
                        THEN [NoCall EXCEPT !.op = op, !.name = name, !.buffer = buffer,
                                            !.metadata = metadata, !.pc = first,
                                            !.begun = now,
                                            !.view = saved[key], !.solo = (others = {}),
                                            !.quiet = ~EvictActive]
                        ELSE IF d \in others THEN [calls[d] EXCEPT !.solo = FALSE]
                        ELSE calls[d]]
         /\ saved' = IF op \in {"save", "delete"}
                     THEN [saved EXCEPT ![key] = NeverSaved] ELSE saved
  /\ UNCHANGED <<disk, evict, escaped, sweeper>>
  /\ UNCHANGED <<now, jobs, nextId>>
  /\ UNCHANGED workerVars
  /\ UNCHANGED edgeVars

\* storageProvider.save(filename, buffer, metadata)
Save(c, name, buffer, metadata) == BeginCall(c, "save", name, buffer, metadata, "writeFile")

\* storageProvider.get(filename)
Get(c, name) == BeginCall(c, "get", name, 0, EmptyPatch, "readMetadata")

\* storageProvider.delete(filename)
Delete(c, name) == BeginCall(c, "delete", name, 0, EmptyPatch, "unlinkFile")

\* storageProvider.exists(filename)
Exists(c, name) == BeginCall(c, "exists", name, 0, EmptyPatch, "access")

\* storageProvider.getMetadata(filename)
GetMetadata(c, name) == BeginCall(c, "getMetadata", name, 0, EmptyPatch, "readMetadata")

\* the fs call a client's call is waiting for settles
CallSettles(c) ==
  /\ Active(calls[c])
  /\ \E r \in {CallStep(disk, calls[c], now)} :
       /\ disk' = r.disk
       /\ calls' = [calls EXCEPT ![c] = r.call]
       /\ escaped' = (escaped \/ ~InsideRoot(r.path))
       /\ saved' = IF calls[c].op = "save" /\ r.call.outcome.status = "ok" /\ calls[c].solo
                   THEN [saved EXCEPT ![Basename(calls[c].name)] =
                           [valid |-> TRUE, buffer |-> calls[c].buffer,
                            at |-> calls[c].stamped, metadata |-> calls[c].metadata]]
                   ELSE saved
  /\ evict' = IF EvictActive THEN [evict EXCEPT !.clean = FALSE, !.before = EmptyDisk]
              ELSE evict
  /\ UNCHANGED <<now, jobs, nextId, sweeper>>
  /\ UNCHANGED workerVars
  /\ UNCHANGED edgeVars

\* cleanupExpiredFiles() is called and runs up to its fs.readdir; one call at a time
BeginEvict ==
  /\ ~EvictActive
  /\ evict' = [NoEvict EXCEPT !.pc = "readdir", !.clean = TRUE, !.startedAt = now,
                              !.before = disk]
  /\ calls' = [c \in Clients |->
                 IF Active(calls[c]) THEN [calls[c] EXCEPT !.quiet = FALSE] ELSE calls[c]]
  /\ UNCHANGED <<disk, saved, escaped>>

\* storageProvider.cleanupExpiredFiles(), called directly
CleanupExpiredFiles ==
  /\ BeginEvict
  /\ UNCHANGED <<now, jobs, nextId, sweeper>>
  /\ UNCHANGED workerVars
  /\ UNCHANGED edgeVars

\* fs.readdir rejects: cleanupExpiredFiles throws
EvictReaddirFails ==
  /\ evict.pc = "readdir"
  /\ evict' = [NoEvict EXCEPT !.pc = "done", !.status = "failed"]
  /\ UNCHANGED <<disk, calls, saved, escaped, sweeper>>
  /\ UNCHANGED <<now, jobs, nextId>>
  /\ UNCHANGED workerVars
  /\ UNCHANGED edgeVars

\* fs.readdir resolves: the metadata files are filtered out and the loop begins
EvictReaddirDone ==
  /\ evict.pc = "readdir"
  /\ evict' \in EvictContinue([evict EXCEPT !.todo = {f \in Readdir(disk) : f.meta = 0}])
  /\ UNCHANGED <<disk, calls, saved, escaped, sweeper>>
  /\ UNCHANGED <<now, jobs, nextId>>
  /\ UNCHANGED workerVars
  /\ UNCHANGED edgeVars

\* the loop's getMetadata(filename) settles; an error skips the file
EvictMetadataDone ==
  /\ evict.pc = "readMetadata"
  /\ LET r == ReadMetadata(disk, <<evict.cur>>)
     IN  IF r.error = "" /\ IsExpired(r.meta, now)
         THEN evict' = [evict EXCEPT !.pc = "unlinkFile"]
         ELSE evict' \in EvictContinue(evict)
  /\ UNCHANGED <<disk, calls, saved, escaped, sweeper>>
  /\ UNCHANGED <<now, jobs, nextId>>
  /\ UNCHANGED workerVars
  /\ UNCHANGED edgeVars

\* an fs.unlink of the loop's delete(filename) settles; after the second one
\* deletedCount++
EvictUnlinkDone ==
  /\ evict.pc \in {"unlinkFile", "unlinkMetadata"}
  /\ LET r == DeleteStep(disk, <<evict.cur>>, evict.pc)
     IN  /\ disk' = r.disk
         /\ IF r.threw THEN evict' \in EvictContinue(evict)
            ELSE IF evict.pc = "unlinkFile"
            THEN evict' = [evict EXCEPT !.pc = "unlinkMetadata"]
            ELSE evict' \in EvictContinue([evict EXCEPT !.deletedCount = @ + 1])
  /\ UNCHANGED <<calls, saved, escaped, sweeper>>
  /\ UNCHANGED <<now, jobs, nextId>>
  /\ UNCHANGED workerVars
  /\ UNCHANGED edgeVars

\* cleanup() is called and runs up to its await of cleanupExpiredFiles(); a
\* pass begins only when the previous one has returned
BeginCleanup(sw) ==
  /\ sw.pc = "idle"
  /\ sw.passes < MaxPasses
  /\ BeginEvict
  /\ sweeper' = [sw EXCEPT !.pc = "files", !.results = NoResults,
                           !.passes = @ + 1, !.settled = "none",
                           !.returns = NoReturns]

\* cleanupScheduler.start()
SchedulerStart ==
  /\ IF sweeper.isRunning
     THEN UNCHANGED <<sweeper, disk, calls, evict, saved, escaped>>
     ELSE BeginCleanup([sweeper EXCEPT !.isRunning = TRUE, !.intervalId = TRUE,
                                       !.timers = @ + 1])
  /\ UNCHANGED <<now, jobs, nextId>>
  /\ UNCHANGED workerVars
  /\ UNCHANGED edgeVars

\* the setInterval callback of start(): one scheduled cleanup(); it fires
\* while a timer set by start() is registered with the event loop
SchedulerTick ==
  /\ sweeper.timers > 0
  /\ BeginCleanup(sweeper)
  /\ UNCHANGED <<now, jobs, nextId>>
  /\ UNCHANGED workerVars
  /\ UNCHANGED edgeVars

\* mutant of SchedulerStop: the interval timer is not cleared
SchedulerStopKeepsTimer ==
  /\ IF ~sweeper.isRunning
     THEN UNCHANGED sweeper
     ELSE sweeper' = [sweeper EXCEPT !.isRunning = FALSE, !.intervalId = FALSE]
  /\ UNCHANGED <<now, jobs, nextId>>
  /\ UNCHANGED workerVars
  /\ UNCHANGED storageVars
  /\ UNCHANGED edgeVars

\* cleanupScheduler.stop(): clearInterval removes the registered timer
SchedulerStop ==
  /\ IF ~sweeper.isRunning
     THEN UNCHANGED sweeper
     ELSE sweeper' = [sweeper EXCEPT !.isRunning = FALSE, !.intervalId = FALSE,
                                    !.timers = IF sweeper.intervalId
                                               THEN @ - 1 ELSE @]
  /\ UNCHANGED <<now, jobs, nextId>>
  /\ UNCHANGED workerVars
  /\ UNCHANGED storageVars
  /\ UNCHANGED edgeVars

\* cleanup(): the await of cleanupExpiredFiles() settles, the job cleanup runs
\* and the call returns its results
CleanupFilesSettled ==
  /\ sweeper.pc = "files"
  /\ evict.pc = "done"
  /\ LET r == CleanupRest(sweeper, evict, jobs, now)
     IN  /\ sweeper' = r.sweeper
         /\ jobs' = r.jobs
  /\ evict' = NoEvict
  /\ UNCHANGED <<now, nextId>>
  /\ UNCHANGED workerVars
  /\ UNCHANGED <<disk, calls, saved, escaped>>
  /\ UNCHANGED edgeVars

\* a request arrives at a route guarded by verifySignature alone
VerifyRequest ==
  /\ http.route = "none"
  /\ \E req \in AuthRequests, secret \in Secrets, ms \in AuthTimes :
        http' = [route |-> "verify", request |-> req, secret |-> secret, at |-> ms,
                 response |-> VerifySignature(req, secret, ms)]
  /\ UNCHANGED <<now, jobs, nextId, sweeper>>
  /\ UNCHANGED workerVars
  /\ UNCHANGED storageVars
  /\ UNCHANGED held

\* POST /generate-video: the middlewares and the handler run in one go
GenerateVideoRequest ==
  /\ http.route = "none"
  /\ nextId < MaxJobs
  /\ \E req \in ApiRequests, secret \in {NoSecret, "k1"}, ms \in {1000000} :
        LET r == GenerateVideo(req, secret, ms, jobs, nextId, now)
        IN  /\ http' = [route |-> "generate", request |-> req, secret |-> secret,
                        at |-> ms, response |-> r.response]
            /\ jobs' = r.jobs
            /\ nextId' = r.nextId
  /\ UNCHANGED <<now, sweeper>>
  /\ UNCHANGED workerVars
  /\ UNCHANGED storageVars
  /\ UNCHANGED held

\* the response has gone out and the exchange is over
RequestEnds ==
  /\ http.route # "none"
  /\ http.response.responses > 0 \/ http.route = "verify"
  /\ http' = NoRequest
  /\ UNCHANGED <<now, jobs, nextId, sweeper>>
  /\ UNCHANGED workerVars
  /\ UNCHANGED storageVars
  /\ UNCHANGED held

\* GET /health
HealthRequest ==
  /\ http.route = "none"
  /\ http' = [route |-> "health", request |-> NoRequest.request, secret |-> NoSecret,
              at |-> now, response |-> Responded(200),
              body |-> Health(GetStats(jobs),
                              GetStatus(isRunning, currentJobCount, processingJobs))]
  /\ UNCHANGED <<now, jobs, nextId, sweeper, held>>
  /\ UNCHANGED workerVars
  /\ UNCHANGED storageVars

\* a caller of the JobManager calls an accessor and keeps what it returned
CallGetJob(id) ==
  /\ held' = GetJob(jobs, id)
  /\ UNCHANGED <<now, jobs, nextId, sweeper, http>>
  /\ UNCHANGED workerVars
  /\ UNCHANGED storageVars

CallGetAllJobs ==
  /\ held' = GetAllJobs(jobs)
  /\ UNCHANGED <<now, jobs, nextId, sweeper, http>>
  /\ UNCHANGED workerVars
  /\ UNCHANGED storageVars

CallGetJobsByStatus(status) ==
  /\ held' = JobsByStatus(jobs, status)
  /\ UNCHANGED <<now, jobs, nextId, sweeper, http>>
  /\ UNCHANGED workerVars
  /\ UNCHANGED storageVars

\* the caller assigns to a field of an object it holds
CallerWritesOwnField(i) ==
  /\ i \in DOMAIN held
  /\ held' = WriteOwnField(held, i)
  /\ UNCHANGED <<now, jobs, nextId, sweeper, http>>
  /\ UNCHANGED workerVars
  /\ UNCHANGED storageVars

\* the caller assigns to a field of the request object of an object it holds
CallerWritesRequestField(i) ==
  /\ i \in DOMAIN held
  /\ \E r \in {WriteRequestField(jobs, held, i)} :
        /\ jobs' = r.jobs
        /\ held' = r.held
  /\ UNCHANGED <<now, nextId, sweeper, http>>
  /\ UNCHANGED workerVars
  /\ UNCHANGED storageVars

\* GET /download/:filename arrives; arrival records the artifact as it is
\* stored when the handler starts
DownloadRequest ==
  /\ http.route = "none"
  /\ \E name \in Names :
        LET h == DownloadBegins(name, now)
        IN  http' = [route |-> "download", request |-> name, secret |-> NoSecret,
                     at |-> now, response |-> h.response, call |-> h.call,
                     buffer |-> h.buffer, sent |-> h.sent,
                     arrival |-> Stored(disk, name)]
  /\ UNCHANGED <<now, jobs, nextId, sweeper>>
  /\ UNCHANGED workerVars
  /\ UNCHANGED storageVars
  /\ UNCHANGED held

\* the fs call the download handler's storage call is waiting for settles; when
\* that ends the storage call the handler resumes in the same turn
DownloadSettles ==
  /\ http.route = "download"
  /\ Active(http.call)
  /\ \E r \in {CallStep(disk, http.call, now)} :
       /\ disk' = r.disk
       /\ escaped' = (escaped \/ ~InsideRoot(r.path))
       /\ http' = IF Active(r.call) THEN [http EXCEPT !.call = r.call]
                  ELSE LET h == DownloadResumes(http, r.call, now)
                       IN  [http EXCEPT !.response = h.response, !.call = h.call,
                                        !.buffer = h.buffer, !.sent = h.sent]
  /\ evict' = IF EvictActive THEN [evict EXCEPT !.clean = FALSE, !.before = EmptyDisk]
              ELSE evict
  /\ UNCHANGED <<calls, saved>>
  /\ UNCHANGED <<now, jobs, nextId, sweeper>>
  /\ UNCHANGED workerVars
  /\ UNCHANGED held

\* a processJob call of job id moves on
TaskStep(id) ==
  \/ RenderDone(id)
  \/ ComposeDone(id)
  \/ SaveDone(id)
  \/ \E message \in ErrorMessages : StageFails(id, message)
  \/ CleanupDone(id)

\* the server in operation: requests, the running worker, the retention sweep
Next ==
  \/ AdvanceClock
  \/ CreateJob
  \/ SweepJobs
  \/ Start
  \/ Tick
  \/ \E id \in JobIds : TaskStep(id)

Spec == Init /\ [][Next]_vars

\* shutdown and restart of the worker, within one unit of the clock
NextStop ==
  \/ CreateJob
  \/ Start
  \/ Tick
  \/ Stop
  \/ StopWaitRound
  \/ \E id \in JobIds : TaskStep(id)

SpecStop == Init /\ [][NextStop]_vars

\* any sequence of start() and stop() calls, a start() during the wait loop of
\* a stop() included
NextRestart ==
  \/ CreateJob
  \/ StartCall
  \/ Tick
  \/ Stop
  \/ StopWaitRound
  \/ \E id \in JobIds : TaskStep(id)

SpecRestart == Init /\ [][NextRestart]_vars

\* the JobManager on its own, called directly by any client code
NextStore ==
  \/ AdvanceClock
  \/ nextId < MaxStoreJobs /\ CreateJob
  \/ SweepJobs
  \/ \E id \in JobIds, status \in StatusArgs, patch \in Patches :
        ApiUpdateJobStatus(id, status, patch)
  \/ \E id \in JobIds, percentage \in PercentArgs : ApiUpdateJobProgress(id, percentage)
  \/ \E id \in JobIds, resultData \in ResultArgs : ApiSetJobCompleted(id, resultData)
  \/ \E id \in JobIds, message \in ErrorMessages : ApiSetJobFailed(id, message)

SpecStore == Init /\ [][NextStore]_vars

\* the scheduling the event loop guarantees: a registered poll timer keeps
\* firing, and every awaited stage call of every task settles
Fairness ==
  /\ WF_vars(Tick)
  /\ \A id \in JobIds : WF_vars(TaskStep(id))

\* requests and the running worker, within one unit of the clock
NextWorker ==
  \/ CreateJob
  \/ Start
  \/ Tick
  \/ \E id \in JobIds : TaskStep(id)

SpecWorker == Init /\ [][NextWorker]_vars

\* the worker with stages that fail at any point and deletions that fail
NextTemp ==
  \/ CreateJob
  \/ Start
  \/ Tick
  \/ \E id \in JobIds : RenderDone(id)
  \/ \E id \in JobIds : ComposeDone(id)
  \/ \E id \in JobIds : SaveDone(id)
  \/ \E id \in JobIds, message \in ErrorMessages, left \in {"unset", "absent", "partial"} :
        StageFailsWith(id, message, left)
  \/ \E id \in JobIds, failing \in SUBSET TempNames :
        failing \subseteq tempFiles[id].files /\ CleanupDoneWith(id, failing)

SpecTemp == Init /\ [][NextTemp]_vars

\* the worker saving its artifacts in the storage provider while time passes
\* and eviction passes run
NextPersist ==
  \/ AdvanceClock
  \/ nextId < Len(WorkerNames) /\ CreateJob
  \/ Start
  \/ Tick
  \/ \E id \in JobIds : RenderDone(id)
  \/ \E id \in JobIds : ComposeDone(id)
  \/ \E id \in JobIds, buffer \in Buffers : ReadVideoDone(id, buffer)
  \/ \E id \in JobIds, rejects \in BOOLEAN : SaveSettles(id, rejects)
  \/ \E id \in JobIds : saving[id].op = "none" /\ StageFails(id, "stage failed")
  \/ \E id \in JobIds : CleanupDone(id)
  \/ CleanupExpiredFiles
  \/ EvictReaddirDone
  \/ EvictMetadataDone
  \/ EvictUnlinkDone

SpecPersist == Init /\ [][NextPersist]_vars

SpecFair == Init /\ [][NextWorker]_vars /\ Fairness

\* the storage provider on its own, called by any client code
NextStorage ==
  \/ AdvanceClock
  \/ \E c \in Clients, name \in Names, buffer \in Buffers, metadata \in MetadataArgs :
        Save(c, name, buffer, metadata)
  \/ \E c \in Clients, name \in Names : Get(c, name)
  \/ \E c \in Clients, name \in Names : Delete(c, name)
  \/ \E c \in Clients, name \in Names : Exists(c, name)
  \/ \E c \in Clients, name \in Names : GetMetadata(c, name)
  \/ \E c \in Clients : CallSettles(c)

SpecStorage == Init /\ [][NextStorage]_vars

\* saves and reads under one name while eviction passes run
NextEvict ==
  \/ AdvanceClock
  \/ \E c \in Clients, buffer \in Buffers, metadata \in MetadataArgs :
        Save(c, PlainName, buffer, metadata)
  \/ \E c \in Clients : Get(c, PlainName)
  \/ \E c \in Clients : CallSettles(c)
  \/ CleanupExpiredFiles
  \/ EvictReaddirDone
  \/ EvictMetadataDone
  \/ EvictUnlinkDone

SpecEvict == Init /\ [][NextEvict]_vars

\* a client that awaits each of its calls: saves under two names, and
\* eviction passes, one call at a time
NextEvictAlone ==
  \/ AdvanceClock
  \/ \E c \in Clients, name \in {PlainName, OtherName},
        metadata \in {EmptyPatch, [createdAt |-> 0]} :
        ~EvictActive /\ Save(c, name, 1, metadata)
  \/ \E c \in Clients : CallSettles(c)
  \/ (\A c \in Clients : ~Active(calls[c])) /\ CleanupExpiredFiles
  \/ EvictReaddirDone
  \/ EvictMetadataDone
  \/ EvictUnlinkDone

SpecEvictAlone == Init /\ [][NextEvictAlone]_vars

\* the cleanup scheduler at work on the job store and the artifact store
NextSweeper ==
  \/ AdvanceClock
  \/ CreateJob
  \/ \E c \in Clients : ~EvictActive /\ Save(c, PlainName, 1, EmptyPatch)
  \/ \E c \in Clients : CallSettles(c)
  \/ SchedulerStart
  \/ SchedulerTick
  \/ SchedulerStop
  \/ EvictReaddirFails
  \/ EvictReaddirDone
  \/ EvictMetadataDone
  \/ EvictUnlinkDone
  \/ CleanupFilesSettled

SpecSweeper == InitSweeper /\ [][NextSweeper]_vars

\* requests arriving at the signature verifier
NextAuth ==
  \/ VerifyRequest
  \/ RequestEnds

SpecAuth == Init /\ [][NextAuth]_vars

\* job-creation requests, and completions of the jobs made
NextApi ==
  \/ GenerateVideoRequest
  \/ RequestEnds
  \/ \E id \in JobIds, resultData \in ResultArgs : ApiSetJobCompleted(id, resultData)

SpecApi == Init /\ [][NextApi]_vars

\* downloads of artifacts while clients save and read them, time passes and
\* eviction passes run
NextDownload ==
  \/ AdvanceClock
  \/ \E c \in Clients, buffer \in Buffers : Save(c, OtherName, buffer, EmptyPatch)
  \/ \E c \in Clients : Get(c, OtherName)
  \/ \E c \in Clients : CallSettles(c)
  \/ CleanupExpiredFiles
  \/ EvictReaddirDone
  \/ EvictMetadataDone
  \/ EvictUnlinkDone
  \/ DownloadRequest
  \/ DownloadSettles
  \/ RequestEnds

SpecDownload == Init /\ [][NextDownload]_vars

\* callers of the JobManager that keep, and write to, the objects it hands out
NextCopies ==
  \/ nextId < MaxStoreJobs /\ CreateJob
  \/ \E id \in JobIds, resultData \in ResultArgs : ApiSetJobCompleted(id, resultData)
  \/ \E id \in JobIds : CallGetJob(id)
  \/ CallGetAllJobs
  \/ \E status \in Statuses : CallGetJobsByStatus(status)
  \/ \E i \in 1..MaxStoreJobs : CallerWritesOwnField(i)
  \/ \E i \in 1..MaxStoreJobs : CallerWritesRequestField(i)

SpecCopies == Init /\ [][NextCopies]_vars

\* health checks while the worker runs
NextHealth ==
  \/ CreateJob
  \/ Start
  \/ Tick
  \/ \E id \in JobIds : TaskStep(id)
  \/ HealthRequest
  \/ RequestEnds

SpecHealth == Init /\ [][NextHealth]_vars

\* ------------------------------------------------------------ type check
TypeOK ==
  /\ now \in 0..MaxTime
  /\ nextId \in 0..MaxJobs
  /\ isRunning \in BOOLEAN /\ intervalId \in BOOLEAN
  /\ currentJobCount \in Int
  /\ processingJobs \subseteq JobIds
  /\ task \in [JobIds -> TaskPcs]
  /\ stopPc \in {"idle", "waiting"}

\* ---------------------------------------------------------- vocabulary
StatusOf(js, id) == JobOf(js, id).status

InFlight == {id \in JobIds : task[id] \in InFlightPcs}

PendingIds(js) == {id \in JobIds : HasJob(js, id) /\ StatusOf(js, id) = "pending"}

ProcessingIds(js) == {id \in JobIds : HasJob(js, id) /\ StatusOf(js, id) = "processing"}

RECURSIVE SumOver(_, _)
SumOver(f, S) ==
  IF S = {} THEN 0
  ELSE LET x == CHOOSE y \in S : TRUE IN f[x] + SumOver(f, S \ {x})

\* ------------------------------------------------------------------ C1
\* C1: with maxConcurrentJobs = N, no reachable state has more than N jobs in
\* status 'processing', whatever the interleaving of creations, poll ticks and
\* stage completions or failures.
C1_ProcessingWithinCeiling ==
  Cardinality(ProcessingIds(jobs)) <= MaxConcurrentJobs

\* ------------------------------------------------------------------ C2
\* C2: no job is double-processed: over its whole life a job's processing task
\* is launched at most once, and an id held in processingJobs belongs to a
\* task that was launched once and is still in flight.
C2_NoDoubleProcessing ==
  \A id \in JobIds :
    /\ launches[id] <= 1
    /\ id \in processingJobs => launches[id] = 1 /\ task[id] \in InFlightPcs

\* two tasks in flight at different stages, admitted once each, while a third
\* job has finished and later ticks have run
C2_Witness ==
  \E a, b, c \in JobIds :
    /\ task[a] = "save" /\ task[b] = "render" /\ task[c] = "done"
    /\ {a, b} \subseteq processingJobs
    /\ launches[a] = 1 /\ launches[b] = 1 /\ launches[c] = 1

\* ------------------------------------------------------------------ C3
\* C3: job status is monotonic under any sequence of JobManager calls: a job
\* that is 'completed' or 'failed' never changes status, and a job that has
\* left 'pending' never re-enters it.
C3_StatusMonotonic ==
  [][\A id \in JobIds :
       HasJob(jobs, id) /\ HasJob(jobs', id) =>
         /\ StatusOf(jobs, id) \in Terminal => StatusOf(jobs', id) = StatusOf(jobs, id)
         /\ StatusOf(jobs, id) # "pending" => StatusOf(jobs', id) # "pending"]_vars

\* ------------------------------------------------------------------ C4
\* C4: once a job's processing task has finished and released its slot, the
\* job (if its record still exists) is 'completed' or 'failed', for every
\* stage outcome and every error value.
C4_FinishedTaskIsTerminal ==
  \A id \in JobIds :
    task[id] = "done" /\ HasJob(jobs, id) => StatusOf(jobs, id) \in Terminal

\* ------------------------------------------------------------------ C5
\* C5: when a stage of a job fails, the failure is recorded on that job
\* (status 'failed', error message set), every other job's record and task
\* are left as they were, and the worker's slots are untouched by the handler.
C5_FailureIsolated ==
  [][\A id \in JobIds :
       (\E message \in ErrorMessages : StageFails(id, message)) /\ HasJob(jobs, id) =>
         /\ StatusOf(jobs', id) = "failed"
         /\ JobOf(jobs', id).error # NULL
         /\ \A o \in JobIds \ {id} :
              /\ task'[o] = task[o]
              /\ HasJob(jobs, o) => HasJob(jobs', o) /\ JobOf(jobs', o) = JobOf(jobs, o)
         /\ isRunning' = isRunning /\ intervalId' = intervalId]_vars

\* ------------------------------------------------------------------ C6
\* C6: slot accounting is exact: each launched task releases its slot exactly
\* once, when it ends; currentJobCount is the number of tasks in flight and
\* stays within 0..maxConcurrentJobs; processingJobs is the set of tasks in
\* flight; with no task in flight the counter is 0 and the set is empty.
C6_SlotAccounting ==
  /\ currentJobCount >= 0 /\ currentJobCount <= MaxConcurrentJobs
  /\ currentJobCount = Cardinality(InFlight)
  /\ currentJobCount = SumOver(launches, JobIds) - SumOver(releases, JobIds)
  /\ processingJobs = InFlight
  /\ \A id \in JobIds : releases[id] = IF task[id] = "done" THEN 1 ELSE 0
  /\ InFlight = {} => currentJobCount = 0 /\ processingJobs = {}

\* one task ended in success and one in failure, and every slot is free again
C6_Witness ==
  /\ currentJobCount = 0 /\ processingJobs = {}
  /\ \E a, b \in JobIds :
       /\ task[a] = "done" /\ HasJob(jobs, a) /\ StatusOf(jobs, a) = "completed"
       /\ task[b] = "done" /\ HasJob(jobs, b) /\ StatusOf(jobs, b) = "failed"

\* ------------------------------------------------------------------ C7
\* C7: a poll tick with P pending jobs and c tasks in flight moves exactly
\* min(P, maxConcurrentJobs - c) jobs to 'processing', the earliest created
\* ones, leaves the other pending jobs pending, and changes nothing at full
\* capacity; tasks of earlier ticks still running do not block it.
Admitted == {id \in PendingIds(jobs) : HasJob(jobs', id) /\ StatusOf(jobs', id) = "processing"}

C7_TickFillsFreeSlotsFifo ==
  [][Tick =>
       LET P == PendingIds(jobs)
           free == MaxConcurrentJobs - currentJobCount
       IN  /\ Cardinality(Admitted) = IF Cardinality(P) <= free THEN Cardinality(P) ELSE free
           /\ \A a \in Admitted : \A p \in P \ Admitted :
                IndexOf(jobs, a) < IndexOf(jobs, p)
           /\ \A p \in P \ Admitted : HasJob(jobs', p) /\ JobOf(jobs', p) = JobOf(jobs, p)
           /\ \A a \in Admitted : task[a] = "none" /\ task'[a] = "render"
           /\ currentJobCount' = currentJobCount + Cardinality(Admitted)
           /\ free = 0 => UNCHANGED vars]_vars

\* the third job was admitted into the slot the second one freed, while the
\* first job's task, launched by an earlier tick, is still running
C7_Witness ==
  /\ Len(jobs) = 3
  /\ task[1] = "save" /\ task[2] = "done" /\ task[3] = "render"
  /\ StatusOf(jobs, 1) = "processing" /\ StatusOf(jobs, 3) = "processing"

\* ------------------------------------------------------------------ C8
\* C8: while the worker is running and every stage call settles, every
\* pending job is eventually admitted and eventually reaches a terminal
\* status (or its record is pruned first).
C8_NoStarvation ==
  \A id \in JobIds :
    [](isRunning /\ HasJob(jobs, id) /\ StatusOf(jobs, id) = "pending"
         => <>(~HasJob(jobs, id) \/ StatusOf(jobs, id) \in Terminal))

\* ------------------------------------------------------------------ C9
\* C9: after stop() and until a later start(), no job goes from 'pending' to
\* 'processing' and no processing task is launched, whatever is created or
\* finishes meanwhile.
C9_NoAdmissionWhileStopped ==
  [][~isRunning /\ ~isRunning' =>
       /\ launches' = launches
       /\ \A id \in PendingIds(jobs) : HasJob(jobs', id) => StatusOf(jobs', id) = "pending"]_vars

\* stop() is waiting, a slot has been freed by a task that finished during the
\* wait, and a pending job is sitting in the store
C9_Witness ==
  /\ ~isRunning /\ stopPc = "waiting" /\ elapsed > 0
  /\ currentJobCount < MaxConcurrentJobs
  /\ PendingIds(jobs) # {}
  /\ \E id \in JobIds : task[id] = "done"

\* ------------------------------------------------------------------ C10
\* C10: stop() returns as soon as it observes currentJobCount = 0 and otherwise
\* after at most 60 waits; returning cancels nothing, and a task still in
\* flight when stop() gave up releases its slot and leaves its job in a
\* terminal status when it ends.
C10_StopReturnsAndTasksFinish ==
  [][/\ stopPc = "waiting" => elapsed < MaxWaitTime
     /\ stopPc = "waiting" /\ stopPc' = "idle" =>
          /\ currentJobCount = 0 \/ elapsed + WaitInterval >= MaxWaitTime
          /\ task' = task /\ jobs' = jobs /\ currentJobCount' = currentJobCount
     /\ stopPc = "waiting" /\ stopPc' = "waiting" /\ elapsed' # elapsed =>
          currentJobCount > 0 /\ elapsed' = elapsed + WaitInterval
     /\ \A id \in JobIds :
          ~isRunning /\ stopPc = "idle" /\ CleanupDone(id) =>
            /\ currentJobCount' = currentJobCount - 1
            /\ id \notin processingJobs'
            /\ HasJob(jobs, id) => StatusOf(jobs', id) \in Terminal]_vars

\* ------------------------------------------------------------------ C11
\* C11: completedAt is set exactly once: it is null while the job is pending
\* or processing, it is set once the job is terminal, and no later JobManager
\* call (updateJobStatus with any patch, setJobCompleted, setJobFailed)
\* changes its value.
C11_CompletedAtSetOnce ==
  [][\A id \in JobIds :
       HasJob(jobs, id) /\ HasJob(jobs', id) =>
         LET j == JobOf(jobs, id)
             k == JobOf(jobs', id)
         IN  /\ k.status \in {"pending", "processing"} => k.completedAt = NoTime
             /\ k.status \in Terminal => k.completedAt # NoTime
             /\ j.completedAt # NoTime => k.completedAt = j.completedAt]_vars

\* ------------------------------------------------------------------ C12
\* C12: for every job in every reachable state of the JobManager, result is
\* present only when status is 'completed', error is present only when status
\* is 'failed', and the two are never both present.
C12_ResultErrorExclusive ==
  \A i \in DOMAIN jobs :
    /\ jobs[i].result # NoResult => jobs[i].status = "completed"
    /\ jobs[i].error # NULL => jobs[i].status = "failed"
    /\ ~(jobs[i].result # NoResult /\ jobs[i].error # NULL)

\* ------------------------------------------------------------------ C13
\* C13: in every reachable store, createJob with a present request succeeds,
\* appends one record with status 'pending', progress 0, step null, result
\* null, error null and completedAt null, leaves every existing record as it
\* was and returns an id no stored record has; createJob without a request
\* throws and adds nothing.
C13_CreateStoresPendingRecord ==
  nextId < MaxJobs =>
    \A req \in Requests :
      LET r == CreateJobCall(jobs, nextId, req, now)
      IN  IF req = NULL
          THEN r.threw /\ r.jobs = jobs
          ELSE /\ ~r.threw
               /\ Len(r.jobs) = Len(jobs) + 1
               /\ \A i \in DOMAIN jobs : r.jobs[i] = jobs[i]
               /\ ~HasJob(jobs, r.jobId)
               /\ LET j == r.jobs[Len(r.jobs)]
                  IN  /\ j.jobId = r.jobId /\ j.request = req
                      /\ j.status = "pending" /\ j.progress = 0
                      /\ j.currentStep = NULL /\ j.result = NoResult
                      /\ j.error = NULL /\ j.completedAt = NoTime
                      /\ j.createdAt = now

\* a second job was created, pending and untouched, after the first one had
\* been completed at an earlier time
C13_Witness ==
  /\ nextId = 2 /\ Len(jobs) = 2
  /\ jobs[1].status = "completed" /\ jobs[1].result # NoResult
  /\ jobs[2] = NewJob(2, "tweet", now) /\ jobs[1].createdAt < now

\* ------------------------------------------------------------------ C14
\* C14: cleanupExpiredJobs(h) removes exactly the jobs whose createdAt is
\* strictly older than now - h, whatever their status, keeps every other
\* record unchanged, returns the number removed, and a second call at the
\* same instant removes zero.
C14_CleanupRemovesExactlyExpired ==
  [][SweepJobs =>
       LET r == CleanupExpiredJobs(jobs, JobRetentionHours, now)
           again == CleanupExpiredJobs(jobs', JobRetentionHours, now)
           removed == {id \in JobIds : HasJob(jobs, id) /\ ~HasJob(jobs', id)}
       IN  /\ \A id \in JobIds :
                HasJob(jobs, id) =>
                  (id \in removed <=> JobOf(jobs, id).createdAt < now - JobRetentionHours)
           /\ \A id \in JobIds :
                HasJob(jobs', id) => HasJob(jobs, id) /\ JobOf(jobs', id) = JobOf(jobs, id)
           /\ Len(jobs') = Len(jobs) - Cardinality(removed)
           /\ r.removedCount = Cardinality(removed)
           /\ again.removedCount = 0 /\ again.jobs = jobs']_vars

\* the first job was pruned while its task was still in flight, and the second
\* one, exactly h old, is kept
C14_Witness ==
  /\ task[1] \in InFlightPcs /\ ~HasJob(jobs, 1)
  /\ HasJob(jobs, 2) /\ JobOf(jobs, 2).createdAt = now - JobRetentionHours

\* ------------------------------------------------------- storage vocabulary
\* a call of client c returns or throws in this step
Returns(c, op) == calls[c].op = op /\ Active(calls[c]) /\ ~Active(calls'[c])

\* the sanitized names under which d holds a payload with its metadata record
Artifacts(d) ==
  {k \in Keys : /\ InsideRoot(GetFilePath(k))
                /\ d[GetFilePath(k)].kind = "bytes"
                /\ d[GetMetadataPath(k)].kind = "json"}

\* the errors that report an artifact as not found
NotFoundErrors == {"File has expired", "File not found", "Metadata not found"}

\* ------------------------------------------------------------------ C15
\* C15: round trip: a get that began after save(f, buf) returned, with no
\* delete and no other save of the same sanitized name since, and that returns
\* before the TTL has elapsed, returns buf; eviction passes may run meanwhile.
C15_SaveGetRoundTrip ==
  [][\A c \in Clients :
       Returns(c, "get") =>
         LET v == calls[c].view
         IN  /\ v.valid /\ saved[Basename(calls[c].name)] = v
             /\ "createdAt" \notin DOMAIN v.metadata
             /\ now - v.at < TtlHours
             => /\ calls'[c].outcome.status = "ok"
                /\ calls'[c].outcome.buf = v.buffer]_vars

\* ------------------------------------------------------------------ C16
\* C16: lazy eviction: a get that begins when the TTL of the last save of f
\* has passed fails with a not-found error and removes payload and metadata,
\* so that exists(f) then returns false and getMetadata(f) fails.
C16_LazyEviction ==
  [][\A c \in Clients :
       Returns(c, "get") =>
         LET v == calls[c].view
             name == calls[c].name
             probe == [NoCall EXCEPT !.name = name]
         IN  /\ v.valid /\ saved[Basename(name)] = v
             /\ calls[c].solo /\ calls[c].quiet
             /\ calls[c].begun > v.at + TtlHours
             => /\ calls'[c].outcome.status = "failed"
                /\ calls'[c].outcome.error \in NotFoundErrors
                /\ disk'[GetFilePath(name)] = NoFile
                /\ disk'[GetMetadataPath(name)] = NoFile
                /\ ~ExistsStep(disk', probe).call.outcome.flag
                /\ GetMetadataStep(disk', probe).call.outcome.status = "failed"]_vars

\* a get has thrown 'File has expired' for a file saved longer ago than the
\* TTL, and the file and its metadata are gone
C16_Witness ==
  \E c \in Clients :
    /\ calls[c].op = "get" /\ calls[c].pc = "done"
    /\ calls[c].outcome.error = "File has expired"
    /\ saved[Basename(calls[c].name)].valid
    /\ now > saved[Basename(calls[c].name)].at + TtlHours
    /\ disk[GetFilePath(calls[c].name)] = NoFile
    /\ disk[GetMetadataPath(calls[c].name)] = NoFile

\* ------------------------------------------------------------------ C17
\* C17: a cleanupExpiredFiles() pass that runs alone, within one instant,
\* removes exactly the stored artifacts whose expiresAt has passed (payload
\* and metadata), leaves every other path as it was, returns the number
\* removed, and leaves nothing a second pass would remove.
C17_EvictRemovesExactlyExpired ==
  [][/\ EvictActive /\ evict'.pc = "done" /\ evict'.status = "ok"
     /\ evict.clean /\ evict.startedAt = now
     => LET b == evict.before
            expired == {k \in Artifacts(b) : now > b[GetMetadataPath(k)].expiresAt}
            gone == UNION {{GetFilePath(k), GetMetadataPath(k)} : k \in expired}
        IN  /\ \A p \in gone : disk'[p] = NoFile
            /\ \A p \in Paths \ gone : disk'[p] = b[p]
            /\ evict'.count = Cardinality(expired)
            /\ \A k \in Artifacts(disk') : ~IsExpired(disk'[GetMetadataPath(k)], now)]_vars

\* ------------------------------------------------------------------ C18
\* C18: every storage call addresses the file named by the final segment of
\* the caller's name inside the storage directory, two names with the same
\* final segment address the same files, and no fs call is ever made on a
\* path outside the storage directory.
C18_NamesStayInsideRoot ==
  /\ ~escaped
  /\ \A c \in Clients :
       calls[c].op # "none" =>
         /\ GetFilePath(calls[c].name) = StoragePath \o Basename(calls[c].name)
         /\ InsideRoot(GetFilePath(calls[c].name))
         /\ InsideRoot(GetMetadataPath(calls[c].name))
  /\ \A n, m \in Names :
       Basename(n) = Basename(m) =>
         /\ GetFilePath(n) = GetFilePath(m)
         /\ GetMetadataPath(n) = GetMetadataPath(m)

\* ------------------------------------------------------------------ C19
\* C19: a save that returns after an earlier save under the same sanitized
\* name replaces the artifact: the payload is the second buffer, the metadata
\* record is the second save's (no caller-supplied field of the first
\* survives), and the TTL is counted from the second save.
C19_SecondSaveReplaces ==
  [][\A c \in Clients :
       /\ Returns(c, "save") /\ calls'[c].outcome.status = "ok"
       /\ calls[c].view.valid /\ calls[c].solo /\ calls[c].quiet
       => LET name == calls[c].name
              m == disk'[GetMetadataPath(name)]
              probe == [NoCall EXCEPT !.name = name, !.op = "get", !.pc = "readFile"]
          IN  /\ disk'[GetFilePath(name)] = Bytes(calls[c].buffer)
              /\ GetStep(disk', probe, now).call.outcome.buf = calls[c].buffer
              /\ m.kind = "json" /\ m = calls'[c].outcome.meta
              /\ m.filename = Basename(name)
              /\ m.tag = IF "tag" \in DOMAIN calls[c].metadata
                         THEN calls[c].metadata.tag ELSE NoTag
              /\ m.createdAt = calls[c].stamped
              /\ m.expiresAt = calls[c].stamped + TtlHours]_vars

\* ------------------------------------------------------------------ C20
\* C20: the part of a cleanup() pass that follows the file cleanup runs the
\* job cleanup whether the file cleanup returned or threw; the errors of the
\* pass are exactly those of the sub-calls that threw, in order; the pass
\* returns and never throws; it leaves the timer and the running flag as they
\* were, and while the timer is registered and no pass is running the next
\* scheduled pass can start.
C20_PassToleratesFailure ==
  /\ [](sweeper.intervalId /\ sweeper.pc = "idle" /\ sweeper.passes < MaxPasses
          /\ ~EvictActive => ENABLED SchedulerTick)
  /\ [][CleanupFilesSettled =>
       LET h == sweeper.jobRetentionHours
           filesThrew == evict.status = "failed"
           jobsThrew == h <= 0
       IN  /\ jobs' = IF jobsThrew THEN jobs ELSE KeptJobs(jobs, h, now)
           /\ sweeper'.results.errors =
                 (IF filesThrew THEN <<FilesError>> ELSE <<>>)
                   \o (IF jobsThrew THEN <<JobsError>> ELSE <<>>)
           /\ sweeper'.settled = "returned"
           /\ sweeper'.intervalId = sweeper.intervalId
           /\ sweeper'.isRunning = sweeper.isRunning]_vars

\* the second pass, started by the timer, has returned: its file cleanup threw,
\* its job cleanup still pruned an expired job, and the timer is registered
C20_Witness ==
  /\ sweeper.passes = 2 /\ sweeper.pc = "idle" /\ sweeper.settled = "returned"
  /\ sweeper.results.errors = <<FilesError>>
  /\ sweeper.intervalId /\ sweeper.isRunning
  /\ sweeper.returns.jobs = 1

\* ------------------------------------------------------------------ C21
\* C21: the result of a cleanup() pass reports the real counts: filesRemoved is
\* the number cleanupExpiredFiles returned in that pass and jobsCleaned the
\* number cleanupExpiredJobs returned, for each sub-call that succeeded.
C21_ResultReportsCounts ==
  sweeper.settled = "returned" =>
    /\ sweeper.returns.files # NoCount =>
          sweeper.results.filesRemoved = sweeper.returns.files
    /\ sweeper.returns.jobs # NoCount =>
          sweeper.results.jobsCleaned = sweeper.returns.jobs

\* ------------------------------------------------------------------ C22
\* C22: scheduler lifecycle: start() of a stopped scheduler begins exactly one
\* cleanup pass and registers one timer, and each timer firing begins one
\* pass; start() while running changes nothing; while the scheduler stays
\* stopped no pass begins; stop() of a stopped scheduler changes nothing and
\* stop() of a running one leaves no timer; isRunning is true exactly when a
\* timer is registered, and there is never more than one.
C22_SchedulerLifecycle ==
  /\ [](/\ sweeper.isRunning <=> sweeper.intervalId
        /\ sweeper.timers = IF sweeper.isRunning THEN 1 ELSE 0)
  /\ [][/\ SchedulerStart /\ ~sweeper.isRunning =>
            /\ sweeper'.passes = sweeper.passes + 1 /\ sweeper'.pc = "files"
            /\ sweeper'.isRunning /\ sweeper'.timers = sweeper.timers + 1
        /\ SchedulerStart /\ sweeper.isRunning => UNCHANGED vars
        /\ SchedulerTick => sweeper'.passes = sweeper.passes + 1
        /\ ~sweeper.isRunning /\ ~sweeper'.isRunning =>
            sweeper'.passes = sweeper.passes
        /\ SchedulerStop /\ ~sweeper.isRunning => UNCHANGED vars
        /\ SchedulerStop /\ sweeper.isRunning =>
            ~sweeper'.isRunning /\ sweeper'.timers = 0 /\ sweeper'.pc = sweeper.pc]_vars

\* the scheduler was started and stopped, the one pass start() began has
\* returned, and time has passed without a second pass
C22_Witness ==
  /\ ~sweeper.isRunning /\ ~sweeper.intervalId /\ sweeper.timers = 0
  /\ sweeper.passes = 1 /\ sweeper.settled = "returned" /\ now > 0

\* ------------------------------------------------------------------ C23
\* the condition under which the claim has a request accepted: secret
\* configured, both headers present, timestamp a positive number within the
\* tolerance of the time of the request, signature the hex HMAC of
\* "<timestamp>:<JSON body>" under the secret
Authentic(req, secret, ms, sameCase) ==
  /\ secret # NoSecret
  /\ req.signature.present /\ req.timestamp # NoHeader
  /\ ~NumberOf(req.timestamp).nan /\ NumberOf(req.timestamp).value > 0
  /\ NumberOf(req.timestamp).value * 1000 - ms <= TimestampToleranceMs
  /\ ms - NumberOf(req.timestamp).value * 1000 <= TimestampToleranceMs
  /\ ~req.signature.cut
  /\ req.signature.key = secret
  /\ req.signature.message = Message(req.timestamp, JsonStringify(req.body))
  /\ sameCase => ~req.signature.upper

\* the verifier accepted the request: one next() call, no response
Accepted(response) == response.nextCalls = 1 /\ response.responses = 0

\* the verifier rejected the request: one 4xx/5xx response, no next() call
Rejected(response) ==
  response.nextCalls = 0 /\ response.responses = 1 /\ response.status \in {401, 500}

\* C23 as stated: a request is accepted if and only if it is authentic with a
\* signature header equal to the hex digest, and is rejected otherwise.
C23_AcceptsIffAuthenticExact ==
  http.route = "verify" =>
    /\ Accepted(http.response) <=> Authentic(http.request, http.secret, http.at, TRUE)
    /\ ~Accepted(http.response) => Rejected(http.response)

\* C23, amended: a request is accepted (next called once, nothing sent) if and
\* only if it is authentic with a signature header equal to the hex digest up
\* to the case of its hex digits; every other request is rejected and next is
\* never called; the same headers with another body, another secret or
\* another timestamp header are rejected.
C23_AcceptsIffAuthentic ==
  http.route = "verify" =>
    /\ Accepted(http.response) <=> Authentic(http.request, http.secret, http.at, FALSE)
    /\ ~Accepted(http.response) => Rejected(http.response)
    /\ Accepted(http.response) =>
         /\ \A body \in SignedBodies \ {http.request.body} :
              Rejected(VerifySignature([http.request EXCEPT !.body = body],
                                       http.secret, http.at))
         /\ \A secret \in Secrets \ {http.secret} :
              Rejected(VerifySignature(http.request, secret, http.at))
         /\ \A timestamp \in TimestampHeaders \ {http.request.timestamp} :
              Rejected(VerifySignature([http.request EXCEPT !.timestamp = timestamp],
                                       http.secret, http.at))

\* a request signed exactly five minutes before it arrives is accepted
C23_Witness ==
  /\ http.route = "verify" /\ Accepted(http.response)
  /\ http.request.timestamp = "700" /\ http.at = 1000000
  /\ http.request.body = ValidBody /\ ~http.request.signature.upper

\* ------------------------------------------------------------------ C24
\* C24: a job-creation request that verifySignature or validateVideoRequest
\* rejects leaves the job store exactly as it was and is answered with the
\* rejection; a request both let through adds exactly one pending job, leaves
\* the other records as they were and is answered 202.
C24_RejectedRequestsLeaveStore ==
  [][GenerateVideoRequest =>
       LET req == http'.request
           passes == /\ VerifySignature(req, http'.secret, http'.at).nextCalls = 1
                     /\ ValidateVideoRequest(req).nextCalls = 1
       IN  IF passes
           THEN /\ Len(jobs') = Len(jobs) + 1
                /\ \A i \in DOMAIN jobs : jobs'[i] = jobs[i]
                /\ jobs'[Len(jobs')].status = "pending"
                /\ ~HasJob(jobs, jobs'[Len(jobs')].jobId)
                /\ http'.response.status = 202
           ELSE /\ jobs' = jobs /\ nextId' = nextId
                /\ http'.response.status \in {400, 401, 500}
                /\ Authentic(req, http'.secret, http'.at, FALSE)
                     => http'.response.status = 400]_vars

\* a correctly signed request with a bad theme was answered 400 while the store
\* holds the one job an earlier request created
C24_Witness ==
  /\ http.route = "generate" /\ http.response.status = 400
  /\ Authentic(http.request, http.secret, http.at, FALSE)
  /\ http.request.body.theme = Str("blue", 4)
  /\ Len(jobs) = 1 /\ jobs[1].status = "completed"


\* C25: a download answers 400 when the name fails validation, 404 when the
\* artifact is unknown or its TTL has passed when the request arrives, whether
\* or not a sweep has removed it, and otherwise, if it answers 200, sends the
\* whole payload that is stored; it answers nothing else
Answered == http.route = "download" /\ http.response.responses > 0

Gone(stored, t) == ~stored.known \/ t > stored.expiresAt

C25_DownloadAnswers ==
  Answered =>
    /\ http.response.status \in {200, 400, 404}
    /\ ~IsValidFilename(http.request) => http.response.status = 400
    /\ IsValidFilename(http.request) /\ Gone(http.arrival, http.at) =>
          http.response.status = 404
    /\ http.response.status = 200 =>
          http.arrival.known /\ http.sent = http.arrival.buffer


\* C26: what an accessor returns is an independent copy: no write of a caller
\* to an object it was handed, nor to that object's request, changes what a
\* later getJob of any id returns
CallerWrites ==
  \E i \in DOMAIN held : CallerWritesOwnField(i) \/ CallerWritesRequestField(i)

C26_AccessorsReturnCopies ==
  [][CallerWrites => \A id \in JobIds : GetJob(jobs', id) = GetJob(jobs, id)]_vars


\* C27: the body of every health response reports the worker's isRunning, its
\* currentJobCount, maxConcurrentJobs, and the counts of getStats()
C27_HealthReflectsWorker ==
  [][HealthRequest =>
       /\ http'.body.worker.running = JsonFlag([running |-> isRunning], "running")
       /\ http'.body.worker.currentJobs = currentJobCount
       /\ http'.body.worker.maxConcurrentJobs = MaxConcurrentJobs
       /\ http'.body.jobs = GetStats(jobs)]_vars


\* C28: start() on a stopped worker registers the poll timer and runs one poll
\* tick at once, which takes a pending job when a slot is free; start() on a
\* running worker changes nothing; so isRunning is true exactly when a timer
\* is registered, and never more than one is
C28_OnePollTimer ==
  /\ [](/\ isRunning <=> intervalId
        /\ pollTimers = IF isRunning THEN 1 ELSE 0)
  /\ [][StartCall =>
          IF isRunning THEN UNCHANGED vars
          ELSE /\ isRunning' /\ pollTimers' = 1
               /\ (GetJobsByStatus(jobs, "pending") # <<>>
                     /\ currentJobCount < MaxConcurrentJobs)
                    => \E id \in JobIds : launches'[id] = launches[id] + 1]_vars

C28_Witness ==
  /\ isRunning /\ pollTimers = 1
  /\ stopPc = "waiting"
  /\ \E id \in JobIds : launches[id] = 1 /\ task[id] = "render"


\* C29: progress is reported after a stage has succeeded: while a job's render
\* stage is under way its progress is still below 20, while its encode stage is
\* under way below 60, while its artifact is being saved below 80; and a job that
\* is marked failed because its render stage failed has progress 0
C29_ProgressAfterStage ==
  /\ [](\A i \in DOMAIN jobs :
          /\ task[jobs[i].jobId] = "render" => jobs[i].progress < 20
          /\ task[jobs[i].jobId] = "compose" => jobs[i].progress < 60
          /\ task[jobs[i].jobId] = "save" => jobs[i].progress < 80)
  /\ [][\A id \in JobIds, message \in ErrorMessages :
          (/\ StageFails(id, message)
           /\ task[id] = "render"
           /\ HasJob(jobs', id)
           /\ JobOf(jobs', id).status = "failed")
            => JobOf(jobs', id).progress = 0]_vars


\* C30: percent stays within 0..100, and a call changes the step or the percent
\* of a job only if the job is 'processing' when the call begins or when it ends
C30_ProgressOnlyWhileProcessing ==
  /\ [](\A i \in DOMAIN jobs : jobs[i].progress \in 0..100)
  /\ [][\A id \in JobIds :
          (/\ HasJob(jobs, id) /\ HasJob(jobs', id)
           /\ \/ JobOf(jobs', id).progress # JobOf(jobs, id).progress
              \/ JobOf(jobs', id).currentStep # JobOf(jobs, id).currentStep)
            => \/ JobOf(jobs, id).status = "processing"
               \/ JobOf(jobs', id).status = "processing"]_vars


\* C31: in every reachable store a rejected call changes nothing:
\* updateJobStatus, updateJobProgress, setJobCompleted and setJobFailed on an
\* unknown id, updateJobStatus with a status outside the four allowed ones and
\* updateJobProgress with a percentage outside 0..100 all throw, and a call
\* that throws leaves the store (its records and their number) as it was
RejectedCalls ==
  {UpdateJobStatus(jobs, id, status, patch, now) :
     id \in JobIds, status \in StatusArgs, patch \in Patches}
  \cup {UpdateJobProgress(jobs, id, "step", percentage, now) :
          id \in JobIds, percentage \in PercentArgs}
  \cup {SetJobCompleted(jobs, id, resultData, now) :
          id \in JobIds, resultData \in ResultArgs}
  \cup {SetJobFailed(jobs, id, message, now) :
          id \in JobIds, message \in ErrorMessages}

C32_ExpiryFromSaveTime ==
  [][\A c \in Clients :
       Returns(c, "save") /\ calls'[c].outcome.status = "ok"
       => LET m == calls'[c].outcome.meta
          IN  /\ m.createdAt = calls[c].stamped
              /\ m.expiresAt = m.createdAt + TtlHours]_vars


\* C33: get, list and cleanupExpiredFiles decide expiry alike, by the expiresAt
\* stored with the artifact: of the stored artifacts, list returns exactly
\* those get would return, cleanupExpiredFiles removes exactly those get
\* refuses as expired, and these are exactly those with now > expiresAt
GetAlone(name) ==
  RunCall(disk, [NoCall EXCEPT !.op = "get", !.name = name, !.pc = "readMetadata"],
          now).call.outcome

C33_OneExpiryDecision ==
  \A k \in Artifacts(disk) :
    /\ k \in List(disk, now) <=> GetAlone(k).status = "ok"
    /\ k \in Evicted(disk, now) <=> GetAlone(k).error = "File has expired"
    /\ k \in Evicted(disk, now) <=> now > disk[GetMetadataPath(k)].expiresAt


\* C34: when a job's processJob call has ended, after success or after a
\* failure at any point, the only temporary files of the job that remain are
\* those whose deletion failed; and the step that ends the call leaves the job
\* records as they are and releases the slot, whether or not a deletion failed
C34_TempFilesRemoved ==
  /\ [](\A id \in JobIds :
          task[id] = "done" => tempFiles[id].files = tempFiles[id].failed)
  /\ [][\A id \in JobIds :
          task[id] = "cleanup" /\ task'[id] = "done"
          => /\ jobs' = jobs
             /\ currentJobCount' = currentJobCount - 1
             /\ id \notin processingJobs']_vars

\* one job ended completed with both its files deleted, another ended failed
\* with a partly written video that could not be deleted, all slots free
C34_Witness ==
  /\ currentJobCount = 0
  /\ \E i, k \in DOMAIN jobs :
       /\ jobs[i].status = "completed" /\ task[jobs[i].jobId] = "done"
       /\ tempFiles[jobs[i].jobId] = NoTempFiles
       /\ jobs[k].status = "failed" /\ task[jobs[k].jobId] = "done"
       /\ tempFiles[jobs[k].jobId].files = {"video"}
       /\ tempFiles[jobs[k].jobId].failed = {"video"}


\* C35: in the step in which a job becomes 'completed' the artifact named by
\* its result is in the store, payload and metadata, the payload is the
\* composed bytes, and a get of that name at that moment returns them (if the
\* save took place within the current instant); and a job whose save call
\* threw is never 'completed'
Completes(id) ==
  /\ HasJob(jobs, id) /\ JobOf(jobs, id).status # "completed"
  /\ HasJob(jobs', id) /\ JobOf(jobs', id).status = "completed"

C35_CompletedAfterSave ==
  /\ [][\A id \in DOMAIN WorkerNames :
          Completes(id)
          => LET name == WorkerNames[JobOf(jobs', id).result]
                 probe == [NoCall EXCEPT !.op = "get", !.name = name,
                                         !.pc = "readMetadata"]
             IN  /\ saving'[id].outcome.status = "ok"
                 /\ disk'[GetFilePath(name)] = Bytes(saving[id].buffer)
                 /\ disk'[GetMetadataPath(name)].kind = "json"
                 /\ saving[id].stamped = now
                      => RunCall(disk', probe, now).call.outcome.buf
                           = saving[id].buffer]_vars
  /\ [](\A id \in DOMAIN WorkerNames :
          saving[id].outcome.status = "failed" /\ HasJob(jobs, id)
          => JobOf(jobs, id).status # "completed")

\* one job completed with its artifact stored, the other failed because its
\* save threw, while an eviction pass has run
C35_Witness ==
  /\ Len(jobs) = 2
  /\ jobs[1].status = "completed" /\ saving[1].outcome.status = "ok"
  /\ disk[GetFilePath(WorkerNames[1])].kind = "bytes"
  /\ jobs[2].status = "failed" /\ saving[2].outcome.status = "failed"
  /\ evict.pc = "done"


\* C36: a job whose record the retention sweep removed while its task was in
\* flight: no later step stores a record under its id again; its task still
\* ends (while in flight it always has a step to take, and each step takes it
\* one stage nearer its end), and the step that ends it gives the slot back;
\* no slot is ever held without a task in flight; and a tick after that admits
\* the oldest pending job into a free slot
Removed(id) == id <= nextId /\ ~HasJob(jobs, id)

SweptTasks == {id \in JobIds : Removed(id) /\ launches[id] = 1}

\* the awaits a processJob call at this point has still to pass
StagesLeft(pc) ==
  CASE pc = "render" -> 4 [] pc = "compose" -> 3 [] pc = "save" -> 2
    [] pc = "cleanup" -> 1 [] OTHER -> 0

C36_SweptTaskEnds ==
  /\ [][\A id \in SweptTasks :
          /\ ~HasJob(jobs', id)
          /\ task[id] = "cleanup" /\ task'[id] = "done"
               => /\ currentJobCount' = currentJobCount - 1
                  /\ id \notin processingJobs']_vars
  /\ [](/\ currentJobCount = Cardinality(InFlight)
        /\ processingJobs = InFlight)
  /\ [][(/\ Tick
         /\ \E id \in SweptTasks : task[id] = "done"
         /\ currentJobCount < MaxConcurrentJobs
         /\ GetJobsByStatus(jobs, "pending") # <<>>)
          => LET first == Head(GetJobsByStatus(jobs, "pending"))
             IN  first \in processingJobs' /\ task'[first] \in InFlightPcs]_vars
  /\ [](\A id \in SweptTasks : task[id] \in InFlightPcs => ENABLED TaskStep(id))
  /\ [][\A id \in SweptTasks :
          task'[id] # task[id] => StagesLeft(task'[id]) < StagesLeft(task[id])]_vars

\* the record of job 1 was swept while its task was in flight, the task has
\* ended, and a job created later holds a slot
C36_Witness ==
  /\ 1 \in SweptTasks /\ task[1] = "done" /\ releases[1] = 1
  /\ HasJob(jobs, 2) /\ StatusOf(jobs, 2) = "processing" /\ task[2] \in InFlightPcs
  /\ currentJobCount = 1


\* C37: whenever no storage operation is in progress (no client call and no
\* eviction pass), every artifact name has its payload and its metadata record
\* or neither of them
StorageQuiet == (\A c \in Clients : ~Active(calls[c])) /\ ~EvictActive

C37_PayloadAndMetadataPaired ==
  StorageQuiet
  => \A k \in {k \in Keys : InsideRoot(GetFilePath(k))} :
       disk[GetFilePath(k)].kind = "none" <=> disk[GetMetadataPath(k)].kind = "none"


\* C38: every stored job's status is one of the four, also after
\* updateJobStatus calls that carry a patch, and getStats().total equals the
\* sum of the four counts and the number of stored records
C38_StatusesAndStats ==
  /\ \A i \in DOMAIN jobs : jobs[i].status \in Statuses
  /\ LET stats == GetStats(jobs)
     IN  /\ stats.total
              = stats.pending + stats.processing + stats.completed + stats.failed
         /\ stats.total = Len(jobs)


\* C39: while the worker drives the jobs, a job's percent only moves up the
\* list 0, 20, 60, 80, 100, one place at a time; it is 100 exactly when the
\* job is 'completed'; and the step in which a stage fails leaves the percent
\* as it was when the stage's call began (20 in render, 60 in compose, 80 in
\* save), whether or not the job is then marked 'failed'
ProgressValues == <<0, 20, 60, 80, 100>>

C39_ProgressMonotonic ==
  /\ [](\A i \in DOMAIN jobs :
          /\ \E n \in DOMAIN ProgressValues : jobs[i].progress = ProgressValues[n]
          /\ jobs[i].progress = 100 <=> jobs[i].status = "completed")
  /\ [][\A id \in JobIds :
          HasJob(jobs, id) /\ HasJob(jobs', id)
          => LET before == JobOf(jobs, id).progress
                 after == JobOf(jobs', id).progress
             IN  /\ after >= before
                 /\ after # before
                      => \E n \in 1..(Len(ProgressValues) - 1) :
                           before = ProgressValues[n] /\ after = ProgressValues[n + 1]
                 /\ \A message \in ErrorMessages :
                      StageFails(id, message)
                      => /\ after = before
                         /\ after = CASE task[id] = "render" -> 20
                                      [] task[id] = "compose" -> 60
                                      [] OTHER -> 80]_vars

\* one job completed, one failed in its compose stage, one at its render stage
C39_Witness ==
  /\ Len(jobs) = 3
  /\ \E a, b, c \in JobIds :
       /\ StatusOf(jobs, a) = "completed" /\ JobOf(jobs, a).progress = 100
       /\ StatusOf(jobs, b) = "failed" /\ JobOf(jobs, b).progress = 60
       /\ task[c] = "render" /\ JobOf(jobs, c).progress = 20

====
